---- MODULE Spec2Model ----
(***************************************************************************)
(* A model of the multi-provider LLM adapter of the Agent Team dashboard   *)
(* (src/src/services/llmService.ts): one LLMService object, the public     *)
(* call made on it, and the asynchronous continuations of that call.       *)
(*                                                                         *)
(* Representation of JavaScript values                                     *)
(*   - a string the code only tests for truthiness or copies is a TLA+     *)
(*     string; "" is the empty (falsy) string;                             *)
(*   - a possibly-undefined value is Undef or Some(v);                     *)
(*   - a URL is a sequence of tokens, "/" being a token of its own, so     *)
(*     "https://foo.bar/v1" is <<"https:","/","/","foo.bar","/","v1">>;    *)
(*     the empty sequence is the empty string or undefined (both falsy);   *)
(*   - a temperature is kept in tenths (0.7 is 7);                         *)
(*   - an id of the store is a number from 1 and null is 0; the store's    *)
(*     event list is kept by its length, an agent by its id, name, status, *)
(*     taskCount and isCommander, a task by its id, status and assignee.   *)
(***************************************************************************)
EXTENDS Integers, Sequences, FiniteSets, TLC

VARIABLES
    settings,      \* LLMService.settings (constructor argument)
    customConfig,  \* LLMService.customConfig (constructor argument, optional)
    call,          \* the operation the caller invoked: none, chat, streamChat,
                   \* testConnection, testLLMConnection, buildCommanderContext
    chatPc,        \* position of the chat() promise
    chatResult,    \* value chat() resolved with
    chatError,     \* error chat() rejected with
    fetchLog,      \* every fetch() issued, in order
    response,      \* the HTTP response fetch() resolved with
    args,          \* the (messages, options) the public method was called with
    genPc,         \* position of the streamChat() generator
    streamError,   \* error the generator threw
    sent,          \* the lines the server wrote to the response body
    transport,     \* characters of the response body not yet delivered by read()
    buffer,        \* streamChat's decode buffer
    lines,         \* lines of the current read the for loop has not visited yet
    chunks,        \* chunks the generator yielded, in order
    reads,         \* reader.read() calls issued
    pulls,         \* next() calls the consumer made
    pending,       \* a next() call is outstanding (the generator is running)
    abandoned,     \* the consumer stopped pulling
    testPc,        \* position of the testConnection() promise
    testResult,    \* value testConnection() resolved with
    commander,     \* buildCommanderContext's commander argument
    agents,        \* buildCommanderContext's agents argument (the roster)
    tasks,         \* buildCommanderContext's tasks argument (the task summaries)
    context,       \* the messages buildCommanderContext returned
    panelMessages, \* ChatPanel: the conversation shown (the messages state)
    inputValue,    \* ChatPanel: the text of the input box
    isTyping,      \* ChatPanel: the typing indicator
    error,         \* ChatPanel: the error banner
    sends,         \* ChatPanel: the runs of handleSendMessage, in order of start
    chatCalls,     \* ChatPanel: every llmService.chat call made, in order
    store,         \* useAgentStore: the state of the store (its settings are `settings')
    localStorage,  \* the item stored under STORAGE_KEY ('agent-team-data')
    generated      \* ids generateId() has handed out to agents and tasks

configVars == <<settings, customConfig>>
chatVars == <<chatPc, chatResult, chatError, response>>
readerVars == <<sent, transport, buffer, lines>>
genVars == <<genPc, streamError, chunks, reads, pulls, pending, abandoned>>
testVars == <<testPc, testResult>>
contextVars == <<commander, agents, tasks, context>>
panelVars == <<panelMessages, inputValue, isTyping, error, sends, chatCalls>>
storeVars == <<store, localStorage, generated>>
uiVars == <<panelVars, storeVars>>
vars == <<settings, customConfig, call, chatPc, chatResult, chatError, fetchLog, response,
          args, genPc, streamError, sent, transport, buffer, lines, chunks, reads,
          pulls, pending, abandoned, testPc, testResult, commander, agents, tasks,
          context, panelMessages, inputValue, isTyping, error, sends, chatCalls, store,
          localStorage, generated>>

----------------------------------------------------------------------------
(* JavaScript helpers *)

Undef == [defined |-> FALSE]
Some(v) == [defined |-> TRUE, val |-> v]

\* s || '' for a possibly-undefined string
OrEmpty(m) == IF m.defined /\ m.val # "" THEN m.val ELSE ""

\* a?.f for a possibly-undefined record whose field f is itself possibly undefined
Opt(m, f) == IF m.defined THEN m.val[f] ELSE Undef

\* arr[0]
First(arr) == IF Len(arr) >= 1 THEN Some(arr[1]) ELSE Undef

----------------------------------------------------------------------------
(* Configuration *)

Providers == {"openai", "anthropic", "deepseek", "minimax", "zhipu", "ollama", "custom"}

NoConfig == [present |-> FALSE]

SavedConfig(p, k, m, mn, u) ==
    [present |-> TRUE, provider |-> p, apiKey |-> k, model |-> m,
     customModelName |-> mn, customBaseUrl |-> u]

Https == <<"https:", "/", "/">>
Http == <<"http:", "/", "/">>

\* the settings and saved configurations a service is constructed with
GlobalSettings(p, k, u) ==
    [provider |-> p, apiKey |-> k, model |-> "gpt-4", customModelName |-> "",
     customBaseUrl |-> u]

SettingsSet ==
    { GlobalSettings(p, k, <<>>) : p \in Providers, k \in {"", "sk-global"} }
    \cup { GlobalSettings("custom", k, <<"foo.bar">>) : k \in {"", "sk-global"} }

\* the (settings, customConfig) pairs a service is constructed with: the global
\* settings alone, and saved configurations whose empty fields fall back to them
ServiceConfigs ==
    { <<s, NoConfig>> : s \in SettingsSet }
    \cup { <<s, SavedConfig("custom", "sk-saved", "custom", "my-model", <<>>)>> :
              s \in {GlobalSettings("openai", "", <<>>),
                     GlobalSettings("custom", "sk-global", <<"foo.bar">>)} }
    \cup { <<s, SavedConfig("anthropic", "", "claude-3", "", <<>>)>> :
              s \in {GlobalSettings("openai", "", <<>>),
                     GlobalSettings("openai", "sk-global", <<>>)} }
    \cup { <<GlobalSettings("openai", "", <<>>),
             SavedConfig("ollama", "", "llama3", "", Http \o <<"localhost:11434", "/">>)>> }

getEffectiveProvider ==
    IF customConfig.present /\ customConfig.provider # ""
    THEN customConfig.provider ELSE settings.provider

getEffectiveApiKey ==
    IF customConfig.present /\ customConfig.apiKey # ""
    THEN customConfig.apiKey ELSE settings.apiKey

getEffectiveModel ==
    IF customConfig.present /\ customConfig.customModelName # ""
    THEN customConfig.customModelName
    ELSE IF customConfig.present /\ customConfig.model # "" /\ customConfig.model # "custom"
    THEN customConfig.model
    ELSE settings.model

getEffectiveBaseUrl ==
    IF customConfig.present /\ customConfig.customBaseUrl # <<>>
    THEN customConfig.customBaseUrl ELSE settings.customBaseUrl

----------------------------------------------------------------------------
(* Endpoint resolution *)

\* tokens that begin with the given word (String.includes matches a prefix
\* of the path segment that follows the slash)
BeginsWith(word) ==
    CASE word = "chat" -> {"chat", "chatcompletion_v2", "chat.foo.bar"}
      [] word = "completions" -> {"completions"}
      [] word = "messages" -> {"messages"}
      [] OTHER -> {word}

\* url.includes("/" + word + "/")
IncludesSegment(url, word) ==
    \E i \in 1..Len(url) :
        i + 2 <= Len(url) /\ url[i] = "/" /\ url[i + 1] = word /\ url[i + 2] = "/"

\* url.includes("/" + word)
IncludesSlashWord(url, word) ==
    \E i \in 1..Len(url) :
        i + 1 <= Len(url) /\ url[i] = "/" /\ url[i + 1] \in BeginsWith(word)

hasPath(url) ==
    \/ IncludesSegment(url, "v1")
    \/ IncludesSegment(url, "v4")
    \/ IncludesSlashWord(url, "chat")
    \/ IncludesSlashWord(url, "completions")
    \/ IncludesSlashWord(url, "messages")

StartsWith(url, prefix) ==
    Len(url) >= Len(prefix) /\ SubSeq(url, 1, Len(prefix)) = prefix

processBaseUrl(url) ==
    LET withScheme == IF ~StartsWith(url, Http) /\ ~StartsWith(url, Https)
                      THEN Https \o url ELSE url
    IN  IF withScheme[Len(withScheme)] = "/"
        THEN SubSeq(withScheme, 1, Len(withScheme) - 1)
        ELSE withScheme

V1ChatCompletions == <<"/", "v1", "/", "chat", "/", "completions">>

\* endpoint resolution that knows no provider default
getApiEndpoint_NoDefault ==
    LET raw == getEffectiveBaseUrl
        baseUrl == IF raw # <<>> THEN processBaseUrl(raw) ELSE raw
    IN  IF raw = <<>> THEN <<>>
        ELSE IF hasPath(baseUrl) THEN baseUrl
        ELSE baseUrl \o V1ChatCompletions

\* endpoint resolution that appends the path whatever the base URL holds
getApiEndpoint_AlwaysSuffix ==
    LET raw == getEffectiveBaseUrl
    IN  IF raw = <<>> THEN Https \o <<"api.openai.com">> \o V1ChatCompletions
        ELSE processBaseUrl(raw) \o V1ChatCompletions

getApiEndpoint ==
    LET provider == getEffectiveProvider
        raw == getEffectiveBaseUrl
        baseUrl == IF raw # <<>> THEN processBaseUrl(raw) ELSE raw
    IN  IF raw # <<>> /\ hasPath(baseUrl) THEN baseUrl
        ELSE CASE provider = "openai" ->
                    IF baseUrl # <<>> THEN baseUrl \o V1ChatCompletions
                    ELSE Https \o <<"api.openai.com">> \o V1ChatCompletions
               [] provider = "anthropic" ->
                    IF baseUrl # <<>> THEN baseUrl \o <<"/", "v1", "/", "messages">>
                    ELSE Https \o <<"api.anthropic.com", "/", "v1", "/", "messages">>
               [] provider = "deepseek" ->
                    IF baseUrl # <<>> THEN baseUrl \o V1ChatCompletions
                    ELSE Https \o <<"api.deepseek.com">> \o V1ChatCompletions
               [] provider = "minimax" ->
                    IF baseUrl # <<>>
                    THEN baseUrl \o <<"/", "v1", "/", "text", "/", "chatcompletion_v2">>
                    ELSE Https \o <<"api.minimax.chat", "/", "v1", "/", "text", "/",
                                    "chatcompletion_v2">>
               [] provider = "zhipu" ->
                    IF baseUrl # <<>>
                    THEN baseUrl \o <<"/", "v4", "/", "chat", "/", "completions">>
                    ELSE Https \o <<"open.bigmodel.cn", "/", "api", "/", "paas", "/",
                                    "v4", "/", "chat", "/", "completions">>
               [] provider = "ollama" ->
                    IF baseUrl # <<>> THEN baseUrl
                    ELSE Http \o <<"localhost:11434">>
               [] provider = "custom" ->
                    IF baseUrl # <<>>
                    THEN (IF hasPath(baseUrl) THEN baseUrl ELSE baseUrl \o V1ChatCompletions)
                    ELSE <<>>
               [] OTHER -> <<>>

----------------------------------------------------------------------------
(* Request construction *)

Header(n, s, v) == [name |-> n, scheme |-> s, value |-> v]

buildHeaders ==
    LET provider == getEffectiveProvider
        apiKey == getEffectiveApiKey
        contentType == Header("Content-Type", "", "application/json")
        bearer == Header("Authorization", "Bearer", apiKey)
    IN  CASE provider \in {"openai", "deepseek", "minimax", "zhipu"} ->
                {contentType, bearer}
          [] provider = "anthropic" ->
                {contentType, Header("x-api-key", "", apiKey),
                 Header("anthropic-version", "", "2023-06-01")}
          [] provider = "ollama" -> {contentType}
          [] provider = "custom" ->
                IF apiKey # "" THEN {contentType, bearer} ELSE {contentType}
          [] OTHER -> {contentType}

Msg(r, c) == [role |-> r, content |-> c]

IsNotSystem(m) == m.role # "system"

\* messages.find((m) => m.role === 'system')
FindSystem(messages) ==
    IF \E i \in 1..Len(messages) : messages[i].role = "system"
    THEN LET i == CHOOSE j \in 1..Len(messages) :
                      /\ messages[j].role = "system"
                      /\ \A k \in 1..(j - 1) : messages[k].role # "system"
         IN  Some(messages[i].content)
    ELSE Undef

\* buildRequestBody with the OpenAI-compatible shape for every provider
buildRequestBody_Flat(messages, temperature, maxTokens) ==
    [model |-> getEffectiveModel, messages |-> messages,
     temperature |-> Some(temperature), max_tokens |-> Some(maxTokens),
     system |-> Undef, stream |-> Undef]

buildRequestBody(messages, temperature, maxTokens) ==
    LET provider == getEffectiveProvider
        model == getEffectiveModel
        flat == [model |-> model, messages |-> messages,
                 temperature |-> Some(temperature), max_tokens |-> Some(maxTokens),
                 system |-> Undef, stream |-> Undef]
    IN  CASE provider \in {"openai", "deepseek", "minimax", "zhipu", "custom"} -> flat
          [] provider = "anthropic" ->
                LET kept == SelectSeq(messages, IsNotSystem)
                    anthropicMessages ==
                        [i \in 1..Len(kept) |->
                            Msg(IF kept[i].role = "assistant" THEN "assistant" ELSE "user",
                                kept[i].content)]
                IN  [model |-> model, messages |-> anthropicMessages,
                     temperature |-> Undef, max_tokens |-> Some(maxTokens),
                     system |-> FindSystem(messages), stream |-> Undef]
          [] provider = "ollama" ->
                [model |-> model, messages |-> messages,
                 temperature |-> Undef, max_tokens |-> Undef,
                 system |-> Undef, stream |-> Some(FALSE)]
          [] OTHER -> flat

----------------------------------------------------------------------------
(* Response parsing *)

\* A decoded JSON value as the parser reads it: the JSON literal null, or an
\* object of which only the fields the code reads are kept.
JsonObject ==
    [isNull |-> FALSE, choices |-> Undef, content |-> Undef, message |-> Undef,
     model |-> Undef, usage |-> Undef]
JsonNull == [JsonObject EXCEPT !.isNull = TRUE]

Text(c) == [content |-> Some(c)]
Choice(message, delta) == [message |-> message, delta |-> delta]
Block(t) == [text |-> t]
Usage(i, o) == [input_tokens |-> i, output_tokens |-> o]

Returned(v) == [threw |-> FALSE, value |-> v]
Threw(name) == [threw |-> TRUE, name |-> name]

NumOrZero(m) == IF m.defined /\ m.val # 0 THEN m.val ELSE 0

\* parseResponse reading the anthropic shape with totalTokens taken from the
\* input count alone
parseResponse_TotalIsInput(data, provider) ==
    IF data.isNull \/ ~data.content.defined THEN Threw("TypeError")
    ELSE Returned([content |-> OrEmpty(Opt(First(data.content.val), "text")),
                   model |-> data.model,
                   usage |-> Some([promptTokens |-> NumOrZero(Opt(data.usage, "input_tokens")),
                                   completionTokens |-> NumOrZero(Opt(data.usage, "output_tokens")),
                                   totalTokens |-> NumOrZero(Opt(data.usage, "input_tokens"))])])

parseResponse(data, provider) ==
    CASE provider \in {"openai", "deepseek", "minimax", "zhipu", "custom"} ->
            IF data.isNull \/ ~data.choices.defined THEN Threw("TypeError")
            ELSE Returned([content |-> OrEmpty(Opt(Opt(First(data.choices.val), "message"),
                                                   "content")),
                           model |-> data.model,
                           usage |-> data.usage])
      [] provider = "anthropic" ->
            IF data.isNull \/ ~data.content.defined THEN Threw("TypeError")
            ELSE Returned([content |-> OrEmpty(Opt(First(data.content.val), "text")),
                           model |-> data.model,
                           usage |-> Some([promptTokens |-> NumOrZero(Opt(data.usage, "input_tokens")),
                                           completionTokens |-> NumOrZero(Opt(data.usage, "output_tokens")),
                                           totalTokens |-> NumOrZero(Opt(data.usage, "input_tokens"))
                                                           + NumOrZero(Opt(data.usage, "output_tokens"))])])
      [] provider = "ollama" ->
            IF data.isNull THEN Threw("TypeError")
            ELSE Returned([content |-> OrEmpty(Opt(data.message, "content")),
                           model |-> data.model,
                           usage |-> Undef])
      [] OTHER -> Returned([content |-> "", model |-> Some(getEffectiveModel), usage |-> Undef])

----------------------------------------------------------------------------
(* Inputs: call arguments and what the network answers *)

DefaultTemperature == 7
DefaultMaxTokens == 2048

NoOptions == [given |-> FALSE]
Options(t, m) == [given |-> TRUE, temperature |-> t, maxTokens |-> m]

\* options?.temperature ?? 0.7 and options?.maxTokens ?? 2048
TemperatureOf(options) == IF options.given THEN options.temperature ELSE DefaultTemperature
MaxTokensOf(options) == IF options.given THEN options.maxTokens ELSE DefaultMaxTokens

CallArgs ==
    { [messages |-> <<Msg("user", "U")>>, options |-> NoOptions],
      [messages |-> <<Msg("system", "S"), Msg("user", "U"), Msg("assistant", "A")>>,
       options |-> Options(5, 50)] }

\* arguments of the streamChat calls
StreamArgs ==
    { [messages |-> <<Msg("system", "S"), Msg("user", "U")>>, options |-> NoOptions] }

NoArgs == [messages |-> <<>>, options |-> NoOptions]

\* decoded 2xx bodies of a non-streaming response
ChatJsonBodies ==
    { [JsonObject EXCEPT !.choices = Some(<<Choice(Some(Text("Hello")), Undef)>>),
                         !.model = Some("gpt-4")],
      [JsonObject EXCEPT !.choices = Some(<<>>), !.model = Some("gpt-4")],
      [JsonObject EXCEPT !.content = Some(<<Block(Some("Hello"))>>),
                         !.model = Some("claude-3"),
                         !.usage = Some(Usage(Some(10), Some(5)))],
      [JsonObject EXCEPT !.content = Some(<<>>)],
      [JsonObject EXCEPT !.message = Some(Text("Hello")), !.model = Some("llama3")],
      JsonObject }

HttpBody(parsable, data) == [parsable |-> parsable, data |-> data]
HttpResponse(status, hasBody, body) == [status |-> status, hasBody |-> hasBody, body |-> body]
NoResponse == HttpResponse(0, FALSE, HttpBody(FALSE, JsonNull))

\* response.ok
Ok(r) == r.status >= 200 /\ r.status <= 299

ChatResponses ==
    { HttpResponse(200, TRUE, HttpBody(TRUE, d)) : d \in ChatJsonBodies }
    \cup { HttpResponse(200, TRUE, HttpBody(FALSE, JsonNull)),
           HttpResponse(401, TRUE, HttpBody(FALSE, JsonNull)),
           HttpResponse(500, TRUE, HttpBody(FALSE, JsonNull)) }

----------------------------------------------------------------------------
(* Errors *)

\* debug: the "[Debug] Provider: ..., Endpoint: ..., Model: ..." suffix was added
Err(name, text) == [name |-> name, text |-> text, debug |-> FALSE]
NoError == Err("", "")

ApiKeyRequired == Err("Error", "API key is required")
BaseUrlRequired == Err("Error", "Custom base URL is required for custom provider")
ApiError == Err("Error", "API error")
FetchFailed == Err("TypeError", "Failed to fetch")
NoResponseBody == Err("Error", "No response body")
ReadFailed == Err("TypeError", "network error")

\* error.message.includes('Endpoint:')
MentionsEndpoint(e) == e.text = "API error" \/ e.debug

\* the catch block of chat
ChatCatch(e) == IF MentionsEndpoint(e) THEN e ELSE [e EXCEPT !.debug = TRUE]

NoResult == [content |-> "", model |-> Undef, usage |-> Undef]

----------------------------------------------------------------------------
(* chat *)

Request(endpoint, headers, body) ==
    [endpoint |-> endpoint, method |-> "POST", headers |-> headers, body |-> body]

\* chat() without the API key validation
ChatBegin_NoKeyCheck(messages, options) ==
    /\ chatPc' = "awaitFetch"
    /\ fetchLog' = Append(fetchLog,
                          Request(getApiEndpoint, buildHeaders,
                                  buildRequestBody(messages, TemperatureOf(options),
                                                   MaxTokensOf(options))))
    /\ UNCHANGED chatError

\* chat() from its first statement to its first await
ChatBegin(messages, options) ==
    LET provider == getEffectiveProvider
        endpoint == getApiEndpoint
        apiKey == getEffectiveApiKey
        body == buildRequestBody(messages, TemperatureOf(options), MaxTokensOf(options))
    IN  IF apiKey = "" /\ provider # "ollama"
        THEN /\ chatPc' = "rejected"
             /\ chatError' = ApiKeyRequired
             /\ UNCHANGED fetchLog
        ELSE IF provider = "custom" /\ endpoint = <<>>
        THEN /\ chatPc' = "rejected"
             /\ chatError' = BaseUrlRequired
             /\ UNCHANGED fetchLog
        ELSE /\ chatPc' = "awaitFetch"
             /\ fetchLog' = Append(fetchLog, Request(endpoint, buildHeaders, body))
             /\ UNCHANGED chatError

chat(a) ==
    /\ call = "none"
    /\ call' = "chat"
    /\ args' = a
    /\ ChatBegin(a.messages, a.options)
    /\ UNCHANGED <<configVars, testVars, contextVars, uiVars, chatResult, response, readerVars, genVars>>

\* fetch() rejects: the catch block rethrows with the debug suffix
chatFetchFailed ==
    /\ chatPc = "awaitFetch"
    /\ chatPc' = "rejected"
    /\ chatError' = ChatCatch(FetchFailed)
    /\ UNCHANGED <<configVars, testVars, contextVars, uiVars, call, args, chatResult, fetchLog, response, readerVars, genVars>>

\* fetch() resolves with a response: the body is read as text or as JSON
chatFetchSettled(r) ==
    /\ chatPc = "awaitFetch"
    /\ response' = r
    /\ chatPc' = IF ~Ok(r) THEN "awaitText" ELSE "awaitJson"
    /\ UNCHANGED <<configVars, testVars, contextVars, uiVars, call, args, chatResult, chatError, fetchLog, readerVars, genVars>>

\* a non-2xx response answered by sending the request again
chatTextSettled_Retry ==
    /\ chatPc = "awaitText"
    /\ chatPc' = "awaitFetch"
    /\ fetchLog' = Append(fetchLog, fetchLog[Len(fetchLog)])
    /\ UNCHANGED <<configVars, testVars, contextVars, uiVars, call, args, chatResult, chatError, response, readerVars, genVars>>

\* response.text() resolves on a non-2xx response
chatTextSettled ==
    /\ chatPc = "awaitText"
    /\ chatPc' = "rejected"
    /\ chatError' = ChatCatch(ApiError)
    /\ UNCHANGED <<configVars, testVars, contextVars, uiVars, call, args, chatResult, fetchLog, response, readerVars, genVars>>

\* response.json() settles on a 2xx response
chatJsonSettled ==
    /\ chatPc = "awaitJson"
    /\ LET parsed == IF response.body.parsable
                     THEN parseResponse(response.body.data, getEffectiveProvider)
                     ELSE Threw("SyntaxError")
       IN  IF parsed.threw
           THEN /\ chatPc' = "rejected"
                /\ chatError' = ChatCatch(Err(parsed.name, "cannot parse"))
                /\ UNCHANGED chatResult
           ELSE /\ chatPc' = "resolved"
                /\ chatResult' = parsed.value
                /\ UNCHANGED chatError
    /\ UNCHANGED <<configVars, testVars, contextVars, uiVars, call, args, fetchLog, response, readerVars, genVars>>

----------------------------------------------------------------------------
(* testConnection *)

\* A message is the sequence of the pieces its template literal joins.
TestResult(success, message) == [success |-> success, message |-> message]
NoTestResult == TestResult(FALSE, <<>>)

\* error.message: the text, then the debug suffix when the catch block of chat added it
MessageOf(e) == IF e.debug THEN <<e.text, "[Debug]">> ELSE <<e.text>>

TestMessages == <<Msg("user", "Hi")>>
TestOptions == Options(5, 50)

\* testConnection() from its first statement to `await this.chat(...)`
TestBegin ==
    /\ testPc' = "awaitChat"
    /\ args' = [messages |-> TestMessages, options |-> TestOptions]
    /\ ChatBegin(TestMessages, TestOptions)
    /\ UNCHANGED testResult

testConnection ==
    /\ call = "none"
    /\ call' = "testConnection"
    /\ TestBegin
    /\ UNCHANGED <<configVars, contextVars, uiVars, chatResult, response, readerVars, genVars>>

\* the store's action: two checks on the global settings, then the service's
\* testConnection on a service built from the global settings alone
testLLMConnection ==
    /\ call = "none"
    /\ customConfig = NoConfig
    /\ call' = "testLLMConnection"
    /\ IF settings.apiKey = "" /\ settings.provider # "ollama"
       THEN /\ testPc' = "resolved"
            /\ testResult' = TestResult(FALSE, <<"API key not configured. Please set up your API key in Settings.">>)
            /\ UNCHANGED <<args, chatPc, chatError, fetchLog>>
       ELSE IF settings.provider = "custom" /\ settings.customBaseUrl = <<>>
       THEN /\ testPc' = "resolved"
            /\ testResult' = TestResult(FALSE, <<"Custom base URL not configured. Please set up your custom base URL in Settings.">>)
            /\ UNCHANGED <<args, chatPc, chatError, fetchLog>>
       ELSE TestBegin
    /\ UNCHANGED <<configVars, contextVars, uiVars, chatResult, response, readerVars, genVars>>

\* testConnection() with no catch block: the error of chat propagates
testConnectionSettled_NoCatch ==
    /\ testPc = "awaitChat"
    /\ chatPc \in {"resolved", "rejected"}
    /\ IF chatPc = "resolved"
       THEN /\ testPc' = "resolved"
            /\ testResult' = IF chatResult.content # ""
                             THEN TestResult(TRUE, <<"Connection successful!">>)
                             ELSE TestResult(FALSE, <<"Empty response from API">>)
       ELSE /\ testPc' = "rejected"
            /\ UNCHANGED testResult
    /\ UNCHANGED <<configVars, contextVars, uiVars, call, args, chatVars, fetchLog, readerVars, genVars>>

\* `await this.chat(...)` settles: the try block's two returns, or the catch block
testConnectionSettled ==
    /\ testPc = "awaitChat"
    /\ chatPc \in {"resolved", "rejected"}
    /\ testPc' = "resolved"
    /\ testResult' = IF chatPc = "resolved"
                     THEN IF chatResult.content # ""
                          THEN TestResult(TRUE, <<"Connection successful!">>)
                          ELSE TestResult(FALSE, <<"Empty response from API">>)
                     ELSE TestResult(FALSE, <<"Connection failed: ">> \o MessageOf(chatError))
    /\ UNCHANGED <<configVars, contextVars, uiVars, call, args, chatVars, fetchLog, readerVars, genVars>>

----------------------------------------------------------------------------
(* The streamed response body *)

\* The body is a sequence of characters.  The letters of "data:" and of
\* "[DONE]", blanks and line ends are single characters; a JSON text is kept
\* as one element holding the whole text.
DataPrefix == <<"d", "a", "t", "a", ":">>
DoneToken == <<"[", "D", "O", "N", "E", "]">>
Newline == "\n"
Whitespace == {" ", "\t", "\r"}

JDeltaHi == "{\"choices\":[{\"delta\":{\"content\":\"Hi\"}}]}"
JDeltaBang == "{\"choices\":[{\"delta\":{\"content\":\"!\"}}]}"
JDeltaRole == "{\"choices\":[{\"delta\":{\"role\":\"assistant\"}}]}"
JMessageYo == "{\"message\":{\"content\":\"yo\"}}"
JNull == "null"
JTruncated == "{\"choices\":[{\"delta\":"

\* JSON.parse
JsonParse(str) ==
    CASE str = <<JDeltaHi>> ->
            Returned([JsonObject EXCEPT !.choices = Some(<<Choice(Undef, Some(Text("Hi")))>>)])
      [] str = <<JDeltaBang>> ->
            Returned([JsonObject EXCEPT !.choices = Some(<<Choice(Undef, Some(Text("!")))>>)])
      [] str = <<JDeltaRole>> ->
            Returned([JsonObject EXCEPT
                        !.choices = Some(<<Choice(Undef, Some([content |-> Undef]))>>)])
      [] str = <<JMessageYo>> ->
            Returned([JsonObject EXCEPT !.message = Some(Text("yo"))])
      [] str = <<JNull>> -> Returned(JsonNull)
      [] OTHER -> Threw("SyntaxError")

\* what the server wrote: a line, and what it is meant to carry
Frame(text, shape, content) == [text |-> text, shape |-> shape, content |-> content]

FrameCatalog ==
    { Frame(DataPrefix \o <<" ">> \o DoneToken, "done", ""),
      Frame(DataPrefix \o <<" ", JDeltaHi>>, "openai", "Hi"),
      Frame(DataPrefix \o <<JDeltaBang>>, "openai", "!"),
      Frame(DataPrefix \o <<" ", JDeltaRole, "\r">>, "openai", ""),
      Frame(DataPrefix \o <<" ", JMessageYo>>, "ollama", "yo"),
      Frame(DataPrefix \o <<" ", JTruncated>>, "invalid", ""),
      Frame(DataPrefix \o <<" ", JNull>>, "null", ""),
      Frame(<<>>, "blank", "") }

MaxFrames == 2

\* frames: the lines written; terminated: the last line ends with a newline
Bodies ==
    { [frames |-> f, terminated |-> t] :
        f \in UNION { [1..n -> FrameCatalog] : n \in 0..MaxFrames }, t \in BOOLEAN }
    \ { [frames |-> <<>>, terminated |-> FALSE] }

NoBody == [frames |-> <<>>, terminated |-> TRUE]

RECURSIVE Wire(_)
Wire(frames) ==
    IF frames = <<>> THEN <<>>
    ELSE Head(frames).text \o <<Newline>> \o Wire(Tail(frames))

\* the characters of a body
Characters(body) ==
    LET all == Wire(body.frames)
    IN  IF body.terminated THEN all ELSE SubSeq(all, 1, Len(all) - 1)

\* what fetch() resolves with in streamChat: a 2xx response with a body
\* stream, a 2xx response without one, a non-2xx response
StreamResponses ==
    { HttpResponse(200, TRUE, HttpBody(FALSE, JsonNull)),
      HttpResponse(200, FALSE, HttpBody(FALSE, JsonNull)),
      HttpResponse(500, TRUE, HttpBody(FALSE, JsonNull)) }

----------------------------------------------------------------------------
(* streamChat: string helpers *)

RECURSIVE TrimStart(_)
TrimStart(str) ==
    IF str # <<>> /\ Head(str) \in Whitespace THEN TrimStart(Tail(str)) ELSE str

RECURSIVE TrimEnd(_)
TrimEnd(str) ==
    IF str # <<>> /\ str[Len(str)] \in Whitespace
    THEN TrimEnd(SubSeq(str, 1, Len(str) - 1)) ELSE str

\* String.prototype.trim
Trim(str) == TrimEnd(TrimStart(str))

\* str.slice(n)
Slice(str, n) == SubSeq(str, n + 1, Len(str))

\* str.split('\n')
RECURSIVE Split(_)
Split(str) ==
    IF \E i \in 1..Len(str) : str[i] = Newline
    THEN LET i == CHOOSE j \in 1..Len(str) :
                      str[j] = Newline /\ \A k \in 1..(j - 1) : str[k] # Newline
         IN  <<SubSeq(str, 1, i - 1)>> \o Split(SubSeq(str, i + 1, Len(str)))
    ELSE <<str>>

----------------------------------------------------------------------------
(* streamChat: the generator *)

Chunk(content, done) == [content |-> content, done |-> done]

\* the body sent with stream enabled
EnableStreaming(body, provider) ==
    IF body.stream.defined THEN [body EXCEPT !.stream = Some(TRUE)]
    ELSE IF provider \in {"openai", "deepseek", "custom"}
    THEN [body EXCEPT !.stream = Some(TRUE)]
    ELSE body

\* the incremental text of a decoded frame
extractDelta(data, provider) ==
    IF provider \in {"openai", "deepseek", "custom"}
    THEN IF data.isNull \/ ~data.choices.defined THEN Threw("TypeError")
         ELSE Returned(OrEmpty(Opt(Opt(First(data.choices.val), "delta"), "content")))
    ELSE IF provider = "ollama"
    THEN IF data.isNull THEN Threw("TypeError")
         ELSE Returned(OrEmpty(Opt(data.message, "content")))
    ELSE Returned("")

\* an iteration that does not know the [DONE] sentinel
handleLine_IgnoresDone(line, provider) ==
    LET trimmed == Trim(line)
        parsed == JsonParse(Trim(Slice(trimmed, 5)))
        delta == extractDelta(parsed.value, provider)
    IN  IF trimmed = <<>> \/ ~StartsWith(trimmed, DataPrefix) THEN [kind |-> "skip", content |-> ""]
        ELSE IF parsed.threw THEN [kind |-> "skip", content |-> ""]
        ELSE IF delta.threw THEN [kind |-> "skip", content |-> ""]
        ELSE IF delta.value # "" THEN [kind |-> "chunk", content |-> delta.value]
        ELSE [kind |-> "skip", content |-> ""]

\* an iteration that ends the stream at a frame it cannot parse
handleLine_StopsAtBadFrame(line, provider) ==
    LET trimmed == Trim(line)
        dataStr == Trim(Slice(trimmed, 5))
        parsed == JsonParse(dataStr)
        delta == extractDelta(parsed.value, provider)
    IN  IF trimmed = <<>> \/ ~StartsWith(trimmed, DataPrefix) THEN [kind |-> "skip", content |-> ""]
        ELSE IF dataStr = DoneToken THEN [kind |-> "done", content |-> ""]
        ELSE IF parsed.threw THEN [kind |-> "done", content |-> ""]
        ELSE IF delta.threw THEN [kind |-> "done", content |-> ""]
        ELSE IF delta.value # "" THEN [kind |-> "chunk", content |-> delta.value]
        ELSE [kind |-> "skip", content |-> ""]

\* one iteration of the for loop: skip the line, yield a chunk, or yield the
\* terminal chunk of the [DONE] sentinel
handleLine(line, provider) ==
    LET trimmed == Trim(line)
        dataStr == Trim(Slice(trimmed, 5))
        parsed == JsonParse(dataStr)
        delta == extractDelta(parsed.value, provider)
    IN  IF trimmed = <<>> \/ ~StartsWith(trimmed, DataPrefix) THEN [kind |-> "skip", content |-> ""]
        ELSE IF dataStr = DoneToken THEN [kind |-> "done", content |-> ""]
        ELSE IF parsed.threw THEN [kind |-> "skip", content |-> ""]
        ELSE IF delta.threw THEN [kind |-> "skip", content |-> ""]
        ELSE IF delta.value # "" THEN [kind |-> "chunk", content |-> delta.value]
        ELSE [kind |-> "skip", content |-> ""]

\* the for loop from the given lines up to its next yield
RECURSIVE RunLines(_, _)
RunLines(ls, provider) ==
    IF ls = <<>> THEN [kind |-> "exhausted", content |-> "", rest |-> <<>>]
    ELSE LET r == handleLine(Head(ls), provider)
         IN  IF r.kind = "skip" THEN RunLines(Tail(ls), provider)
             ELSE [kind |-> r.kind, content |-> r.content, rest |-> Tail(ls)]

\* a loop that issues the next read before it yields the last chunk of a read
ContinueLoop_Prefetch(ls) ==
    LET r == RunLines(ls, getEffectiveProvider)
    IN  CASE r.kind = "chunk" ->
                /\ chunks' = Append(chunks, Chunk(r.content, FALSE))
                /\ genPc' = "yieldedChunk"
                /\ lines' = r.rest
                /\ pending' = FALSE
                /\ reads' = IF r.rest = <<>> THEN reads + 1 ELSE reads
          [] r.kind = "done" ->
                /\ chunks' = Append(chunks, Chunk("", TRUE))
                /\ genPc' = "yieldedDone"
                /\ lines' = r.rest
                /\ pending' = FALSE
                /\ UNCHANGED reads
          [] OTHER ->
                /\ genPc' = "awaitRead"
                /\ reads' = reads + 1
                /\ lines' = <<>>
                /\ pending' = TRUE
                /\ UNCHANGED chunks

\* the generator runs the for loop over ls: it suspends at a yield, or leaves
\* the loop and issues the next read
ContinueLoop(ls) ==
    LET r == RunLines(ls, getEffectiveProvider)
    IN  CASE r.kind = "chunk" ->
                /\ chunks' = Append(chunks, Chunk(r.content, FALSE))
                /\ genPc' = "yieldedChunk"
                /\ lines' = r.rest
                /\ pending' = FALSE
                /\ UNCHANGED reads
          [] r.kind = "done" ->
                /\ chunks' = Append(chunks, Chunk("", TRUE))
                /\ genPc' = "yieldedDone"
                /\ lines' = r.rest
                /\ pending' = FALSE
                /\ UNCHANGED reads
          [] OTHER ->
                /\ genPc' = "awaitRead"
                /\ reads' = reads + 1
                /\ lines' = <<>>
                /\ pending' = TRUE
                /\ UNCHANGED chunks

\* the caller invokes streamChat(): a suspended generator object is returned
streamChat(a) ==
    /\ call = "none"
    /\ call' = "streamChat"
    /\ args' = a
    /\ genPc' = "suspendedStart"
    /\ UNCHANGED <<configVars, testVars, contextVars, uiVars, chatVars, fetchLog, readerVars, streamError, chunks,
                   reads, pulls, pending, abandoned>>

\* first next(): the generator runs from its first statement to its first await
nextStart ==
    /\ genPc = "suspendedStart" /\ ~abandoned
    /\ pulls' = pulls + 1
    /\ LET provider == getEffectiveProvider
           body == EnableStreaming(buildRequestBody(args.messages, TemperatureOf(args.options),
                                                    MaxTokensOf(args.options)), provider)
       IN  IF getEffectiveApiKey = "" /\ provider # "ollama"
           THEN /\ genPc' = "threw"
                /\ streamError' = ApiKeyRequired
                /\ pending' = FALSE
                /\ UNCHANGED <<chatPc, chatError, fetchLog>>
           ELSE IF provider = "anthropic"
           THEN /\ ChatBegin(args.messages, args.options)
                /\ genPc' = "awaitChat"
                /\ pending' = TRUE
                /\ UNCHANGED streamError
           ELSE /\ fetchLog' = Append(fetchLog, Request(getApiEndpoint, buildHeaders, body))
                /\ genPc' = "awaitFetch"
                /\ pending' = TRUE
                /\ UNCHANGED <<chatPc, chatError, streamError>>
    /\ UNCHANGED <<configVars, testVars, contextVars, uiVars, call, args, chatResult, response, readerVars, chunks,
                   reads, abandoned>>

\* a fallback that yields the terminal chunk without the result
streamChatSettled_DropsContent ==
    /\ genPc = "awaitChat"
    /\ chatPc \in {"resolved", "rejected"}
    /\ IF chatPc = "resolved"
       THEN /\ chunks' = Append(chunks, Chunk("", TRUE))
            /\ genPc' = "yieldedFallback"
            /\ UNCHANGED streamError
       ELSE /\ genPc' = "threw"
            /\ streamError' = chatError
            /\ UNCHANGED chunks
    /\ pending' = FALSE
    /\ UNCHANGED <<configVars, testVars, contextVars, uiVars, call, args, chatVars, fetchLog, readerVars, reads, pulls,
                   abandoned>>

\* the fallback's chat() settles: its whole result is yielded, or its error propagates
streamChatSettled ==
    /\ genPc = "awaitChat"
    /\ chatPc \in {"resolved", "rejected"}
    /\ IF chatPc = "resolved"
       THEN /\ chunks' = Append(chunks, Chunk(chatResult.content, TRUE))
            /\ genPc' = "yieldedFallback"
            /\ UNCHANGED streamError
       ELSE /\ genPc' = "threw"
            /\ streamError' = chatError
            /\ UNCHANGED chunks
    /\ pending' = FALSE
    /\ UNCHANGED <<configVars, testVars, contextVars, uiVars, call, args, chatVars, fetchLog, readerVars, reads, pulls,
                   abandoned>>

\* fetch() rejects
streamFetchFailed ==
    /\ genPc = "awaitFetch"
    /\ genPc' = "threw"
    /\ streamError' = FetchFailed
    /\ pending' = FALSE
    /\ UNCHANGED <<configVars, testVars, contextVars, uiVars, call, args, chatVars, fetchLog, readerVars, chunks, reads,
                   pulls, abandoned>>

\* fetch() resolves: a non-2xx body is read as text, a missing body throws,
\* otherwise the reader is taken and the first read issued
streamFetchSettled ==
    /\ genPc = "awaitFetch"
    /\ \E r \in StreamResponses :
          /\ response' = r
          /\ IF ~Ok(r)
             THEN /\ genPc' = "awaitText"
                  /\ UNCHANGED <<streamError, pending, reads, sent, transport>>
             ELSE IF ~r.hasBody
             THEN /\ genPc' = "threw"
                  /\ streamError' = NoResponseBody
                  /\ pending' = FALSE
                  /\ UNCHANGED <<reads, sent, transport>>
             ELSE /\ genPc' = "awaitRead"
                  /\ \E body \in Bodies :
                        /\ sent' = body
                        /\ transport' = Characters(body)
                  /\ reads' = reads + 1
                  /\ UNCHANGED <<streamError, pending>>
    /\ UNCHANGED <<configVars, testVars, contextVars, uiVars, call, args, chatPc, chatResult, chatError, fetchLog,
                   buffer, lines, chunks, pulls, abandoned>>

\* response.text() resolves on a non-2xx response
streamTextSettled ==
    /\ genPc = "awaitText"
    /\ genPc' = "threw"
    /\ streamError' = ApiError
    /\ pending' = FALSE
    /\ UNCHANGED <<configVars, testVars, contextVars, uiVars, call, args, chatVars, fetchLog, readerVars, chunks, reads,
                   pulls, abandoned>>

\* a read whose lines are split off the new characters alone, the buffer
\* of the earlier reads being dropped
readValue_NoBuffer(n) ==
    /\ genPc = "awaitRead"
    /\ n \in 1..Len(transport)
    /\ transport' = Slice(transport, n)
    /\ LET parts == Split(SubSeq(transport, 1, n))
       IN  /\ buffer' = parts[Len(parts)]
           /\ ContinueLoop(SubSeq(parts, 1, Len(parts) - 1))
    /\ UNCHANGED <<configVars, testVars, contextVars, uiVars, call, args, chatVars, fetchLog,
                   sent, streamError, pulls, abandoned>>

\* read() resolves with the next n characters: they are appended to the
\* buffer, the complete lines are split off and the for loop runs over them
readValue(n) ==
    /\ genPc = "awaitRead"
    /\ n \in 1..Len(transport)
    /\ transport' = Slice(transport, n)
    /\ LET parts == Split(buffer \o SubSeq(transport, 1, n))
       IN  /\ buffer' = parts[Len(parts)]
           /\ ContinueLoop(SubSeq(parts, 1, Len(parts) - 1))
    /\ UNCHANGED <<configVars, testVars, contextVars, uiVars, call, args, chatVars, fetchLog, sent, streamError, pulls,
                   abandoned>>

\* an end of stream that yields no terminal chunk
readDone_NoTerminalChunk ==
    /\ genPc = "awaitRead"
    /\ transport = <<>>
    /\ genPc' = "yieldedEnd"
    /\ pending' = FALSE
    /\ UNCHANGED <<configVars, testVars, contextVars, uiVars, call, args, chatVars, fetchLog, readerVars, streamError,
                   chunks, reads, pulls, abandoned>>

\* read() resolves with done: the loop is left and the terminal chunk yielded
readDone ==
    /\ genPc = "awaitRead"
    /\ transport = <<>>
    /\ chunks' = Append(chunks, Chunk("", TRUE))
    /\ genPc' = "yieldedEnd"
    /\ pending' = FALSE
    /\ UNCHANGED <<configVars, testVars, contextVars, uiVars, call, args, chatVars, fetchLog, readerVars, streamError,
                   reads, pulls, abandoned>>

\* read() rejects: the catch block rethrows
readFailed ==
    /\ genPc = "awaitRead"
    /\ genPc' = "threw"
    /\ streamError' = ReadFailed
    /\ pending' = FALSE
    /\ UNCHANGED <<configVars, testVars, contextVars, uiVars, call, args, chatVars, fetchLog, readerVars, chunks, reads,
                   pulls, abandoned>>

\* next() after a chunk of the for loop: the loop goes on with the lines left
nextResume ==
    /\ genPc = "yieldedChunk" /\ ~abandoned
    /\ pulls' = pulls + 1
    /\ ContinueLoop(lines)
    /\ UNCHANGED <<configVars, testVars, contextVars, uiVars, call, args, chatVars, fetchLog, sent, transport, buffer,
                   streamError, abandoned>>

\* next() after a terminal chunk: the generator returns
nextReturn ==
    /\ genPc \in {"yieldedDone", "yieldedEnd", "yieldedFallback"} /\ ~abandoned
    /\ pulls' = pulls + 1
    /\ genPc' = "completed"
    /\ UNCHANGED <<configVars, testVars, contextVars, uiVars, call, args, chatVars, fetchLog, readerVars, streamError,
                   chunks, reads, pending, abandoned>>

\* the consumer stops iterating after a chunk
abandon ==
    /\ genPc \in {"yieldedChunk", "yieldedDone", "yieldedEnd", "yieldedFallback"}
    /\ ~abandoned
    /\ abandoned' = TRUE
    /\ UNCHANGED <<configVars, testVars, contextVars, uiVars, call, args, chatVars, fetchLog, readerVars, genPc,
                   streamError, chunks, reads, pulls, pending>>

----------------------------------------------------------------------------
(* buildCommanderContext *)

\* The content string is modelled as the sequence of its lines (the text
\* between two "\n"); a line keeps the values its template interpolates.
Line(kind, n, a, b, c) == [kind |-> kind, n |-> n, a |-> a, b |-> b, c |-> c]
Blank == Line("blank", 0, "", "", "")
PromptLine(prompt) == Line("prompt", 0, prompt, "", "")
YouAreLine(name) == Line("You are", 0, name, "", "")
YourRoleLine == Line("Your role is", 0, "", "", "")
TeamHeading == Line("## Current Team Status:", 0, "", "", "")
TotalAgentsLine(n) == Line("Total Agents:", n, "", "", "")
AgentLine(agent) == Line("agent", 0, agent.name, agent.role, agent.status)
TasksHeading == Line("## Active Tasks:", 0, "", "", "")
NoActiveTasksLine == Line("No active tasks.", 0, "", "", "")
TaskLine(task) == Line("task", 0, task.title, task.status, "")

NoCommander == [present |-> FALSE, name |-> "", systemPrompt |-> ""]
Commander(name, systemPrompt) ==
    [present |-> TRUE, name |-> name, systemPrompt |-> systemPrompt]
Agent(name, role, status) == [name |-> name, role |-> role, status |-> status]
TaskSummary(title, status) == [title |-> title, status |-> status]

\* tasks.slice(0, 10)
TaskLimit == 10
Slice0(arr, n) == SubSeq(arr, 1, IF Len(arr) < n THEN Len(arr) ELSE n)

\* buildCommanderContext listing every task summary
buildCommanderContext_NoSlice(cmd, roster, summaries) ==
    <<Msg("system",
          <<PromptLine(cmd.systemPrompt), Blank, TeamHeading, TotalAgentsLine(Len(roster))>>
          \o [i \in 1..Len(roster) |-> AgentLine(roster[i])]
          \o <<Blank, TasksHeading>>
          \o (IF Len(summaries) = 0
              THEN <<NoActiveTasksLine>>
              ELSE [i \in 1..Len(summaries) |-> TaskLine(summaries[i])]))>>

\* buildCommanderContext listing the roster without the agents that are idle
buildCommanderContext_BusyOnly(cmd, roster, summaries) ==
    LET busy == SelectSeq(roster, LAMBDA agent : agent.status # "idle")
        shown == Slice0(summaries, TaskLimit)
    IN  <<Msg("system",
              <<PromptLine(cmd.systemPrompt), Blank, TeamHeading,
                TotalAgentsLine(Len(roster))>>
              \o [i \in 1..Len(busy) |-> AgentLine(busy[i])]
              \o <<Blank, TasksHeading>>
              \o (IF Len(summaries) = 0
                  THEN <<NoActiveTasksLine>>
                  ELSE [i \in 1..Len(shown) |-> TaskLine(shown[i])]))>>

buildCommanderContext(cmd, roster, summaries) ==
    LET prompt == IF cmd.present THEN cmd.systemPrompt ELSE ""
        name == IF cmd.present /\ cmd.name # "" THEN cmd.name ELSE "the Commander"
        persona == IF prompt # ""
                   THEN <<PromptLine(prompt)>>
                   ELSE <<YouAreLine(name), Blank, YourRoleLine, Blank, Blank>>
        team == <<Blank, TeamHeading, TotalAgentsLine(Len(roster))>>
                \o [i \in 1..Len(roster) |-> AgentLine(roster[i])]
        shown == Slice0(summaries, TaskLimit)
        active == <<Blank, TasksHeading>>
                  \o (IF Len(summaries) = 0
                      THEN <<NoActiveTasksLine>>
                      ELSE [i \in 1..Len(shown) |-> TaskLine(shown[i])])
    IN  <<Msg("system", persona \o team \o active)>>

\* the commanders, rosters and task lists the function is applied to
MaxAgents == 2
MaxTasks == 12

Commanders ==
    {NoCommander, Commander("Alpha", "Lead the team."), Commander("Alpha", ""),
     Commander("", "")}

AgentPool ==
    {Agent("Alpha", "Commander", "idle"), Agent("Beta", "Coder", "working"),
     Agent("Gamma", "Tester", "offline")}

Rosters == UNION { [1..n -> AgentPool] : n \in 0..MaxAgents }

TaskTitles == <<"t1", "t2", "t3", "t4", "t5", "t6", "t7", "t8", "t9", "t10", "t11",
                "t12", "t13", "t14", "t15", "t16">>
TaskStatuses == <<"pending", "in_progress", "completed", "failed">>
TaskAt(i) ==
    TaskSummary(TaskTitles[((i - 1) % Len(TaskTitles)) + 1],
                TaskStatuses[((i - 1) % Len(TaskStatuses)) + 1])

\* n distinct summaries, starting at the k-th title
TaskList(n, k) == [i \in 1..n |-> TaskAt(i + k)]
TaskLists == { TaskList(n, k) : n \in 0..MaxTasks, k \in {0, 3} }

callBuildCommanderContext ==
    /\ call = "none"
    /\ call' = "buildCommanderContext"
    /\ context' = buildCommanderContext(commander, agents, tasks)
    /\ UNCHANGED <<configVars, testVars, uiVars, commander, agents, tasks, args, chatVars, fetchLog,
                   readerVars, genVars>>

----------------------------------------------------------------------------
(* ChatPanel *)

\* A text is the sequence of its pieces; the pieces of an input are its
\* characters, a word being kept as one piece.
ChatMessage(role, content) == [role |-> role, content |-> content]
Greeting == ChatMessage("assistant", <<"Greetings, Commander. How may I assist you today?">>)

\* two of the ten canned replies Math.random chooses from
fallbackResponses ==
    {"Understood. I'll coordinate the team accordingly.",
     "Message received. Analyzing the current task status..."}
FallbackNote == "(Note: LLM not configured. Please configure API key in Settings.)"

\* tasks.filter(status !== 'completed').slice(0, 10).map({title, status})
ActiveTaskLimit == 10
IsNotCompleted(task) == task.status # "completed"
activeTasks ==
    LET open == Slice0(SelectSeq(tasks, IsNotCompleted), ActiveTaskLimit)
    IN  [i \in 1..Len(open) |-> TaskSummary(open[i].title, open[i].status)]

\* the check made on the global settings before a send calls the LLM
isLLMConfigured ==
    /\ ~(settings.apiKey = "" /\ settings.provider # "ollama")
    /\ ~(settings.provider = "custom" /\ settings.customBaseUrl = <<>>)

buildLLMMessages(chatMessages) ==
    LET contextMessages == buildCommanderContext(commander, agents, activeTasks)
        kept == SelectSeq(chatMessages, IsNotSystem)
        chatHistory == [i \in 1..Len(kept) |->
                           Msg(IF kept[i].role = "assistant" THEN "assistant" ELSE "user",
                               kept[i].content)]
    IN  contextMessages \o chatHistory

\* the error chat() throws before its try block, NoError when it goes on to fetch
ChatPreconditionError ==
    IF getEffectiveApiKey = "" /\ getEffectiveProvider # "ollama" THEN ApiKeyRequired
    ELSE IF getEffectiveProvider = "custom" /\ getApiEndpoint = <<>> THEN BaseUrlRequired
    ELSE NoError

\* what a chat call that passed its preconditions resolves or rejects with
ChatContents == {<<>>, <<"Hello">>}
ChatErrors ==
    {ChatCatch(FetchFailed), ChatCatch(ApiError), ChatCatch(Err("TypeError", "cannot parse"))}

\* a run of handleSendMessage: where it waits, and the chat call it made (0: none)
Send(pc, callIndex) == [pc |-> pc, call |-> callIndex]
ChatCall(llmMessages, options, precondition) ==
    [messages |-> llmMessages, options |-> options, precondition |-> precondition]

MaxSends == 2
Inputs == {<<>>, <<" ">>, <<"hi">>, <<" ", "yo", " ">>}

\* onChange of the input box
setInputValue(v) ==
    /\ Len(sends) < MaxSends
    /\ v # inputValue
    /\ inputValue' = v
    /\ UNCHANGED <<configVars, testVars, contextVars, storeVars, panelMessages, isTyping, error, sends,
                   chatCalls, call, args, chatVars, fetchLog, readerVars, genVars>>

\* handleSendMessage from its first statement to its return or its await
handleSendMessage ==
    /\ Len(sends) < MaxSends
    /\ Trim(inputValue) # <<>>
    /\ LET userMessage == ChatMessage("user", Trim(inputValue))
       IN  /\ panelMessages' = Append(panelMessages, userMessage)
           /\ inputValue' = <<>>
           /\ error' = <<>>
           /\ isTyping' = TRUE
           /\ IF ~isLLMConfigured
              THEN /\ sends' = Append(sends, Send("awaitTimer", 0))
                   /\ UNCHANGED chatCalls
              ELSE LET allMessages == Append(panelMessages, userMessage)
                       llmMessages == Append(buildLLMMessages(allMessages),
                                             Msg("user", Trim(inputValue)))
                   IN  /\ chatCalls' = Append(chatCalls,
                                              ChatCall(llmMessages,
                                                       Options(DefaultTemperature,
                                                               DefaultMaxTokens),
                                                       ChatPreconditionError))
                       /\ sends' = Append(sends, Send("awaitChat", Len(chatCalls) + 1))
    /\ UNCHANGED <<configVars, testVars, contextVars, storeVars, call, args, chatVars, fetchLog,
                   readerVars, genVars>>

\* the setTimeout callback of a send that did not call the LLM
timerFired(i) ==
    /\ i \in 1..Len(sends)
    /\ sends[i].pc = "awaitTimer"
    /\ \E reply \in fallbackResponses :
          panelMessages' = Append(panelMessages,
                                  ChatMessage("assistant", <<reply, FallbackNote>>))
    /\ isTyping' = FALSE
    /\ sends' = [sends EXCEPT ![i].pc = "done"]
    /\ UNCHANGED <<configVars, testVars, contextVars, storeVars, inputValue, error, chatCalls, call,
                   args, chatVars, fetchLog, readerVars, genVars>>

\* `await llmService.chat(...)` resolves: the rest of the try block, then finally
chatResolved(i) ==
    /\ i \in 1..Len(sends)
    /\ sends[i].pc = "awaitChat"
    /\ chatCalls[sends[i].call].precondition = NoError
    /\ \E content \in ChatContents :
          panelMessages' = Append(panelMessages, ChatMessage("assistant", content))
    /\ isTyping' = FALSE
    /\ sends' = [sends EXCEPT ![i].pc = "done"]
    /\ UNCHANGED <<configVars, testVars, contextVars, storeVars, inputValue, error, chatCalls, call,
                   args, chatVars, fetchLog, readerVars, genVars>>

\* the rejection of the chat call of send i
RejectionOf(i) ==
    IF chatCalls[sends[i].call].precondition # NoError
    THEN {chatCalls[sends[i].call].precondition}
    ELSE ChatErrors

\* a rejected chat call with no catch block: the error leaves the handler
chatRejected_NoCatch(i) ==
    /\ i \in 1..Len(sends)
    /\ sends[i].pc = "awaitChat"
    /\ isTyping' = FALSE
    /\ sends' = [sends EXCEPT ![i].pc = "threw"]
    /\ UNCHANGED <<configVars, testVars, contextVars, storeVars, panelMessages, inputValue, error,
                   chatCalls, call, args, chatVars, fetchLog, readerVars, genVars>>

\* `await llmService.chat(...)` rejects: the catch block, then finally
chatRejected(i) ==
    /\ i \in 1..Len(sends)
    /\ sends[i].pc = "awaitChat"
    /\ \E e \in RejectionOf(i) :
          /\ error' = MessageOf(e)
          /\ panelMessages' =
                Append(panelMessages,
                       ChatMessage("assistant",
                                   <<"Error: ">> \o MessageOf(e)
                                   \o <<". Please check your API settings.">>))
    /\ isTyping' = FALSE
    /\ sends' = [sends EXCEPT ![i].pc = "done"]
    /\ UNCHANGED <<configVars, testVars, contextVars, storeVars, inputValue, chatCalls, call, args,
                   chatVars, fetchLog, readerVars, genVars>>

----------------------------------------------------------------------------
(* useAgentStore: the agent store and its persistence *)

\* null; the ids generateId() hands out are numbered from 1
Null == 0

\* `${Date.now()}-${random}`: a string no earlier call returned
generateId == generated + 1

AgentNames == {"Ada", "Bo"}
\* what the agent panel's form passes to addAgent
AgentData(name) == [name |-> name, status |-> "idle"]
\* what the task panel's form passes to addTask
TaskData(assignedAgentId) == [status |-> "pending", assignedAgentId |-> assignedAgentId]

Formation(id, name, type, isActive) ==
    [id |-> id, name |-> name, type |-> type, isActive |-> isActive]

initialFormations ==
    << Formation("f1", "Circle Formation", "circle", TRUE),
       Formation("f2", "Matrix Formation", "matrix", FALSE),
       Formation("f3", "Triangle Formation", "triangle", FALSE),
       Formation("f4", "Herring Formation", "herring", FALSE) >>

\* the state the store is created with when nothing is stored; the event list
\* is kept by its length (it starts with the 'system_initialized' event)
initialStore ==
    [agents |-> <<>>,
     tasks |-> <<>>,
     formations |-> initialFormations,
     selectedAgentId |-> Null,
     commanderId |-> Null,
     events |-> 1,
     formationType |-> "circle",
     isHeatmapEnabled |-> FALSE,
     activeTaskAnimations |-> <<>>,
     completingTaskIds |-> <<>>]

\* the AgentStore state an updater sees: the store's fields and its settings
AgentStore(st, s) ==
    [agents |-> st.agents,
     tasks |-> st.tasks,
     formations |-> st.formations,
     selectedAgentId |-> st.selectedAgentId,
     commanderId |-> st.commanderId,
     events |-> st.events,
     settings |-> s,
     formationType |-> st.formationType,
     isHeatmapEnabled |-> st.isHeatmapEnabled,
     activeTaskAnimations |-> st.activeTaskAnimations,
     completingTaskIds |-> st.completingTaskIds]

\* JSON.stringify leaves out a member whose value is undefined
StoredTask(task) ==
    IF task.assignedAgentId.defined
    THEN [id |-> task.id, status |-> task.status, assignedAgentId |-> task.assignedAgentId.val]
    ELSE [id |-> task.id, status |-> task.status]

stringify(data) ==
    [data EXCEPT !.tasks = [i \in 1..Len(data.tasks) |-> StoredTask(data.tasks[i])]]

\* JSON.parse; a member the text does not have reads as undefined
ParsedTask(obj) ==
    [id |-> obj.id,
     status |-> obj.status,
     assignedAgentId |-> IF "assignedAgentId" \in DOMAIN obj THEN Some(obj.assignedAgentId)
                         ELSE Undef]

parse(text) ==
    [text EXCEPT !.tasks = [i \in 1..Len(text.tasks) |-> ParsedTask(text.tasks[i])]]

\* the helper saveState: the item under STORAGE_KEY after a write that succeeds
writeState(data) == Some(stringify(data))

\* the helper loadState: the parsed item, or null (Undef) when nothing is stored
readState == IF localStorage.defined THEN Some(parse(localStorage.val)) ELSE Undef

\* persistCurrentState: the item under STORAGE_KEY after the call
persistCurrentState_NoSelection(state) ==
    writeState([agents |-> state.agents,
                tasks |-> state.tasks,
                formations |-> state.formations,
                settings |-> state.settings,
                formationType |-> state.formationType,
                isHeatmapEnabled |-> state.isHeatmapEnabled,
                commanderId |-> state.commanderId,
                selectedAgentId |-> Null])

persistCurrentState(state) ==
    writeState([agents |-> state.agents,
                tasks |-> state.tasks,
                formations |-> state.formations,
                settings |-> state.settings,
                formationType |-> state.formationType,
                isHeatmapEnabled |-> state.isHeatmapEnabled,
                commanderId |-> state.commanderId,
                selectedAgentId |-> state.selectedAgentId])

\* a ?? b for an id
Coalesce(a, b) == IF a = Null THEN b ELSE a

EventLimit == 100
MaxEvents == 2
MaxIds == 3
MaxTaskCount == 2

\* addEvent on a state: [newEvent, ...state.events].slice(0, 100)
WithEvent(st) ==
    [st EXCEPT !.events = IF st.events + 1 < EventLimit THEN st.events + 1 ELSE EventLimit]

\* agents.find / tasks.find by id
HasAgent(st, id) == \E i \in 1..Len(st.agents) : st.agents[i].id = id
HasTask(st, id) == \E i \in 1..Len(st.tasks) : st.tasks[i].id = id
FindTask(st, id) ==
    st.tasks[CHOOSE i \in 1..Len(st.tasks) :
                 st.tasks[i].id = id /\ \A j \in 1..(i - 1) : st.tasks[j].id # id]

\* set((state) => { ...; persistCurrentState({ ...state, ...newState }); return newState })
\* followed by the events the handler adds: st is the state after the handler
Persist(st) ==
    /\ store' = st
    /\ localStorage' = persistCurrentState(AgentStore(st, settings))

\* everything outside the store
outside ==
    <<customConfig, call, args, chatVars, fetchLog, readerVars, genVars, testVars,
      contextVars, panelVars>>

addAgent(agentData) ==
    /\ generated < MaxIds
    /\ store.events < MaxEvents
    /\ LET newAgent == [id |-> generateId,
                        name |-> agentData.name,
                        status |-> agentData.status,
                        taskCount |-> 0,
                        isCommander |-> FALSE]
       IN  Persist(WithEvent([store EXCEPT !.agents = Append(store.agents, newAgent)]))
    /\ generated' = generated + 1
    /\ UNCHANGED <<settings, outside>>

\* { ...obj, ...updates }: the member f of the merged object
Pick(obj, updates, f) == IF f \in DOMAIN updates THEN updates[f] ELSE obj[f]

\* array.map
Map(arr, F(_)) == [i \in 1..Len(arr) |-> F(arr[i])]

\* the updates the agent panel issues: the edit form, and the status toggle
FormUpdates(name) == [name |-> name]
StatusToggle(agent) == [status |-> IF agent.status = "working" THEN "idle" ELSE "working"]

updateAgent(id, updates) ==
    /\ LET merged(agent) == [id |-> Pick(agent, updates, "id"),
                             name |-> Pick(agent, updates, "name"),
                             status |-> Pick(agent, updates, "status"),
                             taskCount |-> Pick(agent, updates, "taskCount"),
                             isCommander |-> Pick(agent, updates, "isCommander")]
       IN  Persist([store EXCEPT !.agents =
                       Map(store.agents,
                           LAMBDA agent : IF agent.id = id THEN merged(agent) ELSE agent)])
    /\ UNCHANGED <<settings, generated, outside>>

deleteAgent_KeepCommander(id) ==
    /\ HasAgent(store, id) => store.events < MaxEvents
    /\ LET newState == [store EXCEPT
                           !.agents = SelectSeq(store.agents, LAMBDA agent : agent.id # id),
                           !.selectedAgentId = IF store.selectedAgentId = id THEN Null
                                               ELSE store.selectedAgentId]
       IN  Persist(IF HasAgent(store, id) THEN WithEvent(newState) ELSE newState)
    /\ UNCHANGED <<settings, generated, outside>>

deleteAgent(id) ==
    /\ HasAgent(store, id) => store.events < MaxEvents
    /\ LET newState == [store EXCEPT
                           !.agents = SelectSeq(store.agents, LAMBDA agent : agent.id # id),
                           !.selectedAgentId = IF store.selectedAgentId = id THEN Null
                                               ELSE store.selectedAgentId,
                           !.commanderId = IF store.commanderId = id THEN Null
                                           ELSE store.commanderId]
       IN  Persist(IF HasAgent(store, id) THEN WithEvent(newState) ELSE newState)
    /\ UNCHANGED <<settings, generated, outside>>

setCommander(agentId) ==
    /\ HasAgent(store, agentId) => store.events < MaxEvents
    /\ LET newState == [store EXCEPT
                           !.agents = Map(store.agents,
                                          LAMBDA agent :
                                              [agent EXCEPT !.isCommander = (agent.id = agentId)]),
                           !.commanderId = agentId]
       IN  Persist(IF HasAgent(store, agentId) THEN WithEvent(newState) ELSE newState)
    /\ UNCHANGED <<settings, generated, outside>>

selectAgent(agentId) ==
    /\ Persist([store EXCEPT !.selectedAgentId = agentId])
    /\ UNCHANGED <<settings, generated, outside>>

updateAgentStatus(id, status) ==
    /\ HasAgent(store, id) => store.events < MaxEvents
    /\ LET newState == [store EXCEPT
                           !.agents = Map(store.agents,
                                          LAMBDA agent :
                                              IF agent.id = id THEN [agent EXCEPT !.status = status]
                                              ELSE agent)]
       IN  Persist(IF HasAgent(store, id) THEN WithEvent(newState) ELSE newState)
    /\ UNCHANGED <<settings, generated, outside>>

\* Task actions
addTask(taskData) ==
    /\ generated < MaxIds
    /\ store.events < MaxEvents
    /\ LET newTask == [id |-> generateId,
                       status |-> taskData.status,
                       assignedAgentId |-> taskData.assignedAgentId]
       IN  Persist(WithEvent([store EXCEPT !.tasks = Append(store.tasks, newTask)]))
    /\ generated' = generated + 1
    /\ UNCHANGED <<settings, outside>>

updateTask(id, updates) ==
    /\ LET merged(task) == [id |-> Pick(task, updates, "id"),
                            status |-> Pick(task, updates, "status"),
                            assignedAgentId |-> Pick(task, updates, "assignedAgentId")]
       IN  Persist([store EXCEPT !.tasks =
                       Map(store.tasks,
                           LAMBDA task : IF task.id = id THEN merged(task) ELSE task)])
    /\ UNCHANGED <<settings, generated, outside>>

deleteTask(id) ==
    /\ Persist([store EXCEPT !.tasks = SelectSeq(store.tasks, LAMBDA task : task.id # id)])
    /\ UNCHANGED <<settings, generated, outside>>

\* the state assignTask(taskId, agentId) leaves when it runs on st
assignTaskOn(st, taskId, agentId) ==
    LET newState ==
            [st EXCEPT
                !.tasks = Map(st.tasks,
                              LAMBDA task :
                                  IF task.id = taskId
                                  THEN [task EXCEPT !.assignedAgentId = Some(agentId)]
                                  ELSE task),
                !.agents = Map(st.agents,
                               LAMBDA agent :
                                   IF agent.id = agentId
                                   THEN [agent EXCEPT !.taskCount = agent.taskCount + 1]
                                   ELSE agent)]
    IN  IF HasTask(st, taskId) /\ HasAgent(st, agentId) THEN WithEvent(newState) ELSE newState

\* the counters and the event list stay within the bounds after assignTask
AssignFits(st, taskId, agentId) ==
    /\ \A i \in 1..Len(st.agents) :
           st.agents[i].id = agentId => st.agents[i].taskCount < MaxTaskCount
    /\ (HasTask(st, taskId) /\ HasAgent(st, agentId)) => st.events < MaxEvents

assignTask(taskId, agentId) ==
    /\ AssignFits(store, taskId, agentId)
    /\ Persist(assignTaskOn(store, taskId, agentId))
    /\ UNCHANGED <<settings, generated, outside>>

\* the state updateTaskStatus(id, status) leaves when it runs on st
updateTaskStatusOn(st, id, status) ==
    LET assignedAgentId == IF HasTask(st, id) THEN FindTask(st, id).assignedAgentId ELSE Undef
        newState ==
            [st EXCEPT
                !.tasks = Map(st.tasks,
                              LAMBDA task :
                                  IF task.id = id THEN [task EXCEPT !.status = status]
                                  ELSE task),
                !.agents =
                    IF assignedAgentId.defined
                    THEN Map(st.agents,
                             LAMBDA agent :
                                 IF agent.id = assignedAgentId.val /\ status = "completed"
                                 THEN [agent EXCEPT !.taskCount =
                                          IF agent.taskCount - 1 > 0 THEN agent.taskCount - 1
                                          ELSE 0]
                                 ELSE agent)
                    ELSE st.agents]
    IN  IF HasTask(st, id) THEN WithEvent(newState) ELSE newState

updateTaskStatus(id, status) ==
    /\ HasTask(store, id) => store.events < MaxEvents
    /\ Persist(updateTaskStatusOn(store, id, status))
    /\ UNCHANGED <<settings, generated, outside>>

\* Task animation actions
assignTaskToAgent(taskId, fromAgentId, toAgentId) ==
    /\ LET animated ==
               [store EXCEPT !.activeTaskAnimations =
                   Append(store.activeTaskAnimations,
                          [taskId |-> taskId, fromAgentId |-> fromAgentId,
                           toAgentId |-> toAgentId])]
       IN  IF HasTask(animated, taskId) /\ HasAgent(animated, toAgentId)
           THEN /\ AssignFits(animated, taskId, toAgentId)
                /\ animated.events + 1 < MaxEvents
                /\ Persist(WithEvent(assignTaskOn(animated, taskId, toAgentId)))
           ELSE /\ store' = animated
                /\ UNCHANGED localStorage
    /\ UNCHANGED <<settings, generated, outside>>

completeTaskAnimation(taskId) ==
    /\ LET completing ==
               [store EXCEPT
                   !.completingTaskIds = Append(store.completingTaskIds, taskId),
                   !.activeTaskAnimations =
                       SelectSeq(store.activeTaskAnimations,
                                 LAMBDA anim : anim.taskId # taskId)]
       IN  IF HasTask(completing, taskId)
           THEN /\ completing.events < MaxEvents
                /\ Persist(updateTaskStatusOn(completing, taskId, "completed"))
           ELSE /\ store' = completing
                /\ UNCHANGED localStorage
    /\ UNCHANGED <<settings, generated, outside>>

clearTaskAnimation(taskId) ==
    /\ store' = [store EXCEPT !.activeTaskAnimations =
                    SelectSeq(store.activeTaskAnimations, LAMBDA anim : anim.taskId # taskId)]
    /\ UNCHANGED <<settings, localStorage, generated, outside>>

clearCompletingTask(taskId) ==
    /\ store' = [store EXCEPT !.completingTaskIds =
                    SelectSeq(store.completingTaskIds, LAMBDA id : id # taskId)]
    /\ UNCHANGED <<settings, localStorage, generated, outside>>

\* Formation actions
setFormation(formation) ==
    /\ store.events < MaxEvents
    /\ Persist(WithEvent(
           [store EXCEPT !.formations =
               IF \E i \in 1..Len(store.formations) : store.formations[i].id = formation.id
               THEN Map(store.formations,
                        LAMBDA f : IF f.id = formation.id THEN formation ELSE f)
               ELSE Append(store.formations, formation)]))
    /\ UNCHANGED <<settings, generated, outside>>

setActiveFormation(formationId) ==
    /\ LET newState ==
               [store EXCEPT !.formations =
                   Map(store.formations,
                       LAMBDA f : [f EXCEPT !.isActive = (f.id = formationId)])]
           found == \E i \in 1..Len(store.formations) : store.formations[i].id = formationId
       IN  /\ found => store.events < MaxEvents
           /\ Persist(IF found THEN WithEvent(newState) ELSE newState)
    /\ UNCHANGED <<settings, generated, outside>>

setFormationType(type) ==
    /\ store.events < MaxEvents
    /\ Persist(WithEvent([store EXCEPT !.formationType = type]))
    /\ UNCHANGED <<settings, generated, outside>>

\* Heatmap actions
toggleHeatmap ==
    /\ store.events < MaxEvents
    /\ Persist(WithEvent([store EXCEPT !.isHeatmapEnabled = ~store.isHeatmapEnabled]))
    /\ UNCHANGED <<settings, generated, outside>>

setHeatmapEnabled(enabled) ==
    /\ Persist([store EXCEPT !.isHeatmapEnabled = enabled])
    /\ UNCHANGED <<settings, generated, outside>>

\* Event actions
addEvent ==
    /\ store.events < MaxEvents
    /\ store' = WithEvent(store)
    /\ UNCHANGED <<settings, localStorage, generated, outside>>

clearEvents ==
    /\ store' = [store EXCEPT !.events = 0]
    /\ UNCHANGED <<settings, localStorage, generated, outside>>

\* Settings actions
updateSettings(updates) ==
    /\ store.events < MaxEvents
    /\ settings' = [provider |-> Pick(settings, updates, "provider"),
                    apiKey |-> Pick(settings, updates, "apiKey"),
                    model |-> Pick(settings, updates, "model"),
                    customModelName |-> Pick(settings, updates, "customModelName"),
                    customBaseUrl |-> Pick(settings, updates, "customBaseUrl")]
    /\ store' = WithEvent(store)
    /\ localStorage' = persistCurrentState(AgentStore(store, settings'))
    /\ UNCHANGED <<generated, outside>>

\* Persistence actions
loadState ==
    /\ LET loaded == readState
       IN  IF loaded.defined
           THEN /\ store' = [store EXCEPT
                                !.agents = loaded.val.agents,
                                !.tasks = loaded.val.tasks,
                                !.formations = loaded.val.formations,
                                !.formationType = loaded.val.formationType,
                                !.isHeatmapEnabled = loaded.val.isHeatmapEnabled,
                                !.commanderId =
                                    Coalesce(loaded.val.commanderId, store.commanderId),
                                !.selectedAgentId =
                                    Coalesce(loaded.val.selectedAgentId,
                                             store.selectedAgentId)]
                /\ settings' = loaded.val.settings
           ELSE UNCHANGED <<store, settings>>
    /\ UNCHANGED <<localStorage, generated, outside>>

saveState ==
    /\ localStorage' = persistCurrentState(AgentStore(store, settings))
    /\ UNCHANGED <<store, settings, generated, outside>>

----------------------------------------------------------------------------
(* Specification *)

\* no operation has been invoked yet
Idle ==
    /\ call = "none"
    /\ args = NoArgs
    /\ chatPc = "idle"
    /\ chatResult = NoResult
    /\ chatError = NoError
    /\ fetchLog = <<>>
    /\ response = NoResponse
    /\ genPc = "none"
    /\ streamError = NoError
    /\ sent = NoBody
    /\ transport = <<>>
    /\ buffer = <<>>
    /\ lines = <<>>
    /\ chunks = <<>>
    /\ reads = 0
    /\ pulls = 0
    /\ pending = FALSE
    /\ abandoned = FALSE
    /\ testPc = "none"
    /\ testResult = NoTestResult
    /\ context = <<>>
    /\ panelMessages = <<Greeting>>
    /\ inputValue = <<>>
    /\ isTyping = FALSE
    /\ error = <<>>
    /\ sends = <<>>
    /\ chatCalls = <<>>
    /\ store = initialStore
    /\ localStorage = Undef
    /\ generated = 0

\* no context is being built
NoContextInputs ==
    /\ commander = NoCommander
    /\ agents = <<>>
    /\ tasks = <<>>

Init ==
    /\ \E c \in ServiceConfigs : settings = c[1] /\ customConfig = c[2]
    /\ Idle
    /\ NoContextInputs

Next ==
    \/ \E a \in CallArgs : chat(a)
    \/ chatFetchFailed
    \/ \E r \in ChatResponses : chatFetchSettled(r)
    \/ chatTextSettled
    \/ chatJsonSettled
    \/ \E a \in StreamArgs : streamChat(a)
    \/ nextStart
    \/ streamChatSettled
    \/ streamFetchFailed
    \/ streamFetchSettled
    \/ streamTextSettled
    \/ \E n \in {1, Len(transport)} : readValue(n)
    \/ readDone
    \/ readFailed
    \/ nextResume
    \/ nextReturn
    \/ abandon
    \/ testConnection
    \/ testLLMConnection
    \/ testConnectionSettled

Spec == Init /\ [][Next]_vars

\* buildRequestBody applied to every message list, for every provider
MaxMessages == 3
Roles == {"system", "user", "assistant"}
MessagePool == { Msg(r, c) : r \in Roles, c \in {"a", "b"} }
MessageLists == UNION { [1..n -> MessagePool] : n \in 0..MaxMessages }
RequestArgs == { [messages |-> ms, options |-> NoOptions] : ms \in MessageLists }

RequestConfigs ==
    { <<GlobalSettings(p, "sk-global", <<"foo.bar">>), NoConfig>> : p \in Providers }
    \cup { <<GlobalSettings("openai", "sk-global", <<>>),
             SavedConfig("anthropic", "sk-saved", "claude-3", "", <<>>)>> }

RequestInit ==
    /\ \E c \in RequestConfigs : settings = c[1] /\ customConfig = c[2]
    /\ Idle
    /\ NoContextInputs

RequestNext == \E a \in RequestArgs : chat(a)

RequestSpec == RequestInit /\ [][RequestNext]_vars

\* parseResponse applied to anthropic bodies with every usage object
MaxTokenCount == 4
TokenCounts == {Undef} \cup { Some(n) : n \in 0..MaxTokenCount }
UsageObjects == {Undef} \cup { Some(Usage(i, o)) : i, o \in TokenCounts }
UsageResponses ==
    { HttpResponse(200, TRUE,
                   HttpBody(TRUE, [JsonObject EXCEPT !.content = Some(<<Block(Some("Hello"))>>),
                                                     !.model = Some("claude-3"),
                                                     !.usage = u])) :
        u \in UsageObjects }

UsageConfigs ==
    { <<GlobalSettings("anthropic", "sk-global", <<>>), NoConfig>>,
      <<GlobalSettings("openai", "", <<>>),
        SavedConfig("anthropic", "sk-saved", "claude-3", "", <<>>)>> }

UsageInit ==
    /\ \E c \in UsageConfigs : settings = c[1] /\ customConfig = c[2]
    /\ Idle
    /\ NoContextInputs

UsageNext ==
    \/ \E a \in CallArgs : chat(a)
    \/ \E r \in UsageResponses : chatFetchSettled(r)
    \/ chatJsonSettled

UsageSpec == UsageInit /\ [][UsageNext]_vars

\* getApiEndpoint applied to every provider and base URL, the base URL given
\* in the global settings or in a saved configuration
BaseUrls ==
    { <<>>,
      <<"foo.bar">>,
      <<"chat.foo.bar">>,
      <<"foo.bar", "/">>,
      <<"foo.bar", "/", "v1", "/", "chat", "/", "completions">>,
      Https \o <<"foo.bar">>,
      Https \o <<"foo.bar", "/">>,
      Https \o <<"foo.bar", "/", "v1">>,
      Https \o <<"foo.bar", "/", "v1", "/">>,
      Https \o <<"foo.bar", "/", "v1", "/", "chat", "/", "completions">>,
      Https \o <<"foo.bar", "/", "v1", "/", "models">>,
      Https \o <<"foo.bar", "/", "api", "/", "v4", "/", "x">>,
      Https \o <<"foo.bar", "/", "chat">>,
      Https \o <<"foo.bar", "/", "completions">>,
      Https \o <<"foo.bar", "/", "api", "/", "messages">>,
      Http \o <<"localhost:11434">>,
      Http \o <<"localhost:11434", "/", "api", "/", "chat">> }

EndpointConfigs ==
    { <<GlobalSettings(p, "sk-global", u), NoConfig>> : p \in Providers, u \in BaseUrls }
    \cup { <<GlobalSettings("openai", "sk-global", <<>>),
             SavedConfig(p, "sk-saved", "saved-model", "", u)>> :
               p \in Providers, u \in BaseUrls }

EndpointInit ==
    /\ \E c \in EndpointConfigs : settings = c[1] /\ customConfig = c[2]
    /\ Idle
    /\ NoContextInputs

EndpointNext == \E a \in CallArgs : chat(a)

EndpointSpec == EndpointInit /\ [][EndpointNext]_vars

\* The settings panel saves its form into the global settings; a service is
\* then built from them, with or without a saved configuration.
initialSettings ==
    [provider |-> "openai", apiKey |-> "", model |-> "gpt-4o", customModelName |-> "",
     customBaseUrl |-> <<>>]

Form(p, k, m, mn, u) ==
    [provider |-> p, apiKey |-> k, model |-> m, customModelName |-> mn,
     customBaseUrl |-> u]

Forms ==
    { Form(p, "sk-form", m, mn, u) :
        p \in Providers, m \in {"gpt-4o", "claude-3"}, mn \in {"", "my-model"},
        u \in {<<>>, Https \o <<"foo.bar">>} }

\* updateSettings merges the five fields into the stored settings
handleSave(form) ==
    /\ call = "none"
    /\ settings' = [provider |-> form.provider,
                    apiKey |-> form.apiKey,
                    model |-> form.model,
                    customModelName |-> IF form.provider = "custom"
                                        THEN form.customModelName ELSE "",
                    customBaseUrl |-> IF form.provider = "custom"
                                      THEN form.customBaseUrl ELSE <<>>]
    /\ UNCHANGED <<customConfig, testVars, contextVars, uiVars, call, args, chatVars, fetchLog,
                   readerVars, genVars>>

SavedConfigs ==
    { NoConfig,
      SavedConfig("custom", "sk-saved", "custom", "saved-name", Https \o <<"bar.baz">>),
      SavedConfig("custom", "sk-saved", "saved-model", "", Https \o <<"bar.baz">>),
      SavedConfig("openai", "sk-saved", "gpt-4", "", <<>>) }

ModelInit ==
    /\ settings = initialSettings
    /\ customConfig \in SavedConfigs
    /\ Idle
    /\ NoContextInputs

ModelNext ==
    \/ \E form \in Forms : handleSave(form)
    \/ \E a \in CallArgs : chat(a)

ModelSpec == ModelInit /\ [][ModelNext]_vars

\* The chat panel: the store's settings, the commander with the saved
\* configuration it refers to, the roster and the tasks; the user types and sends.
PanelConfigs ==
    { <<GlobalSettings("openai", "sk-global", <<>>), NoConfig>>,
      <<GlobalSettings("openai", "", <<>>), NoConfig>>,
      <<GlobalSettings("ollama", "", <<>>), NoConfig>>,
      <<GlobalSettings("custom", "sk-global", <<>>), NoConfig>>,
      <<GlobalSettings("openai", "", <<>>),
        SavedConfig("anthropic", "sk-saved", "claude-3", "", <<>>)>>,
      <<GlobalSettings("openai", "sk-global", <<>>),
        SavedConfig("custom", "", "custom", "my-model", <<>>)>> }

PanelTasks ==
    { <<>>,
      <<TaskSummary("t1", "pending"), TaskSummary("t2", "completed"),
        TaskSummary("t3", "in_progress")>> }

PanelInit ==
    /\ \E c \in PanelConfigs : settings = c[1] /\ customConfig = c[2]
    /\ Idle
    /\ commander \in IF customConfig.present
                     THEN {Commander("Alpha", "Lead the team.")}
                     ELSE {NoCommander, Commander("Alpha", "")}
    /\ agents = IF commander.present THEN <<Agent("Alpha", "Commander", "idle")>> ELSE <<>>
    /\ tasks \in PanelTasks

PanelNext ==
    \/ \E v \in Inputs : setInputValue(v)
    \/ handleSendMessage
    \/ \E i \in 1..MaxSends : timerFired(i)
    \/ \E i \in 1..MaxSends : chatResolved(i)
    \/ \E i \in 1..MaxSends : chatRejected(i)

PanelSpec == PanelInit /\ [][PanelNext]_vars

\* every timer fires and every chat promise settles
PanelFairSpec ==
    /\ PanelSpec
    /\ \A i \in 1..MaxSends :
          /\ WF_vars(timerFired(i))
          /\ WF_vars(chatResolved(i) \/ chatRejected(i))

\* streamChat on a body delivered in reads of every size
ReadConfigs ==
    { <<GlobalSettings("openai", "sk-global", <<>>), NoConfig>>,
      <<GlobalSettings("ollama", "", <<>>), NoConfig>> }

\* the frames of the bodies that are cut into reads
ReadFrames == { f \in FrameCatalog : f.content # "" \/ f.shape \in {"done", "blank"} }

ReadInit ==
    /\ \E c \in ReadConfigs : settings = c[1] /\ customConfig = c[2]
    /\ Idle
    /\ NoContextInputs

ReadNext ==
    \/ \E a \in StreamArgs : streamChat(a)
    \/ nextStart
    \/ streamFetchSettled /\ \A i \in 1..Len(sent'.frames) : sent'.frames[i] \in ReadFrames
    \/ \E n \in 1..Len(transport) : readValue(n)
    \/ readDone
    \/ nextResume
    \/ nextReturn

ReadSpec == ReadInit /\ [][ReadNext]_vars

\* buildCommanderContext applied to every commander, roster and task list
ContextInit ==
    /\ settings = GlobalSettings("openai", "", <<>>)
    /\ customConfig = NoConfig
    /\ Idle
    /\ commander \in Commanders
    /\ agents \in Rosters
    /\ tasks \in TaskLists

ContextNext == callBuildCommanderContext

ContextSpec == ContextInit /\ [][ContextNext]_vars

\* The store on its own: it starts from empty local storage, with the
\* default settings.
StoreInit ==
    /\ settings = initialSettings
    /\ customConfig = NoConfig
    /\ Idle
    /\ NoContextInputs

\* the ids of the agents and tasks in the collections, and every id handed out
AgentIds == { store.agents[i].id : i \in 1..Len(store.agents) }
TaskIds == { store.tasks[i].id : i \in 1..Len(store.tasks) }
Ids == 1..generated
StoreTaskStatuses == {"pending", "in_progress", "completed"}
Assignees == {Undef} \cup { Some(id) : id \in AgentIds }

\* the task actions, issued with the ids of existing agents and tasks
TaskNext ==
    \/ addAgent(AgentData("Ada"))
    \/ \E a \in Assignees : addTask(TaskData(a))
    \/ \E t \in TaskIds, a \in AgentIds : assignTask(t, a)
    \/ \E t \in TaskIds, s \in StoreTaskStatuses : updateTaskStatus(t, s)
    \/ \E t \in TaskIds, s \in StoreTaskStatuses : updateTask(t, [status |-> s])
    \/ \E t \in TaskIds, a \in Assignees : updateTask(t, [assignedAgentId |-> a])
    \/ \E t \in TaskIds : deleteTask(t)
    \/ \E a \in AgentIds : deleteAgent(a)
    \/ clearEvents

TaskSpec == StoreInit /\ [][TaskNext]_vars

\* agents and tasks are created, assigned and the agents deleted
AssignNext ==
    \/ addAgent(AgentData("Ada"))
    \/ addTask(TaskData(Undef))
    \/ \E t \in TaskIds, a \in AgentIds : assignTask(t, a)
    \/ \E a \in AgentIds : deleteAgent(a)
    \/ clearEvents

AssignSpec == StoreInit /\ [][AssignNext]_vars

\* the agent panel: add, edit, toggle the status, delete, make commander
CommanderNext ==
    \/ \E n \in AgentNames : addAgent(AgentData(n))
    \/ \E id \in Ids, n \in AgentNames : updateAgent(id, FormUpdates(n))
    \/ \E i \in 1..Len(store.agents) :
           updateAgent(store.agents[i].id, StatusToggle(store.agents[i]))
    \/ \E id \in Ids : deleteAgent(id)
    \/ \E id \in AgentIds : setCommander(id)
    \/ clearEvents

CommanderSpec == StoreInit /\ [][CommanderNext]_vars

\* Every action of the store. One agent, one task and one animation exist at
\* a time; the team is built while the display fields are as created, and the
\* display fields are changed while no agent or task has been created.
DisplayAsCreated ==
    /\ store.formations = initialFormations
    /\ store.formationType = "circle"
    /\ ~store.isHeatmapEnabled
    /\ settings = initialSettings

AnimatedIds ==
    { store.activeTaskAnimations[i].taskId : i \in 1..Len(store.activeTaskAnimations) }
CompletingIds == { store.completingTaskIds[i] : i \in 1..Len(store.completingTaskIds) }

TeamEmpty == generated = 0

StoreNext ==
    \/ DisplayAsCreated /\ store.agents = <<>> /\ addAgent(AgentData("Ada"))
    \/ /\ DisplayAsCreated
       /\ \E i \in 1..Len(store.agents) :
              updateAgent(store.agents[i].id, StatusToggle(store.agents[i]))
    \/ DisplayAsCreated /\ \E id \in AgentIds : deleteAgent(id)
    \/ DisplayAsCreated /\ \E id \in AgentIds : setCommander(id)
    \/ DisplayAsCreated /\ \E id \in AgentIds \cup {Null} : selectAgent(id)
    \/ DisplayAsCreated /\ \E id \in AgentIds : updateAgentStatus(id, "working")
    \/ DisplayAsCreated /\ store.tasks = <<>> /\ \E a \in Assignees : addTask(TaskData(a))
    \/ DisplayAsCreated /\ \E t \in TaskIds : updateTask(t, [status |-> "pending"])
    \/ DisplayAsCreated /\ \E t \in TaskIds : deleteTask(t)
    \/ DisplayAsCreated /\ \E t \in TaskIds, a \in AgentIds : assignTask(t, a)
    \/ DisplayAsCreated /\ \E t \in TaskIds : updateTaskStatus(t, "completed")
    \/ /\ DisplayAsCreated
       /\ store.activeTaskAnimations = <<>>
       /\ \E t \in TaskIds, a \in AgentIds \cup {Null} : assignTaskToAgent(t, Null, a)
    \/ /\ DisplayAsCreated
       /\ store.completingTaskIds = <<>>
       /\ \E t \in AnimatedIds : completeTaskAnimation(t)
    \/ DisplayAsCreated /\ \E t \in AnimatedIds : clearTaskAnimation(t)
    \/ DisplayAsCreated /\ \E t \in CompletingIds : clearCompletingTask(t)
    \/ TeamEmpty /\ setFormation(Formation("f5", "Mine", "custom", FALSE))
    \/ TeamEmpty /\ setActiveFormation("f2")
    \/ TeamEmpty /\ setFormationType("matrix")
    \/ TeamEmpty /\ toggleHeatmap
    \/ TeamEmpty /\ setHeatmapEnabled(TRUE)
    \/ TeamEmpty /\ updateSettings([apiKey |-> "sk-form"])
    \/ addEvent
    \/ clearEvents
    \/ loadState
    \/ saveState

StoreSpec == StoreInit /\ [][StoreNext]_vars

----------------------------------------------------------------------------
(* State functions the properties are stated with *)

\* chat() threw one of its precondition errors
PreconditionFailed == chatError \in {ApiKeyRequired, BaseUrlRequired}

CountNewlines(str) == Cardinality({i \in 1..Len(str) : str[i] = Newline})

\* the characters read() has delivered so far
DeliveredChars ==
    LET all == Characters(sent) IN SubSeq(all, 1, Len(all) - Len(transport))

\* the number of lines the for loop has visited, and those lines as written
LinesVisited == CountNewlines(DeliveredChars) - Len(lines)
FramesVisited == SubSeq(sent.frames, 1, LinesVisited)

\* a complete "data: [DONE]" line has been visited
DoneVisited == \E i \in 1..LinesVisited : sent.frames[i].shape = "done"

\* the lines of the body that end with a newline
CompleteFrames ==
    IF sent.terminated THEN sent.frames
    ELSE SubSeq(sent.frames, 1, Len(sent.frames) - 1)

\* the texts carried by the frames of a dialect, in order, up to the sentinel
RECURSIVE FrameTexts(_, _)
FrameTexts(frames, shape) ==
    IF frames = <<>> \/ Head(frames).shape = "done" THEN <<>>
    ELSE (IF Head(frames).shape = shape /\ Head(frames).content # ""
          THEN <<Head(frames).content>> ELSE <<>>)
         \o FrameTexts(Tail(frames), shape)

\* the dialect the specification assigns to a provider
Family(provider) ==
    IF provider \in {"openai", "deepseek", "minimax", "zhipu", "custom"} THEN "openai"
    ELSE IF provider = "ollama" THEN "ollama"
    ELSE "none"

\* the dialect streamChat reads for a provider
Dialect(provider) ==
    IF provider \in {"openai", "deepseek", "custom"} THEN "openai"
    ELSE IF provider = "ollama" THEN "ollama"
    ELSE "none"

IsNotDone(c) == ~c.done

\* the contents of the non-terminal chunks yielded so far
YieldedTexts ==
    LET nt == SelectSeq(chunks, IsNotDone)
    IN  [i \in 1..Len(nt) |-> nt[i].content]

Streaming == call = "streamChat" /\ getEffectiveProvider # "anthropic"

----------------------------------------------------------------------------
(* Properties *)

\* C1: chat rejects without any fetch when the effective API key is empty and
\* the provider is not ollama, and when the provider is custom and the
\* resolved endpoint is empty; with ollama and an empty key it is not
\* rejected on the precondition and the fetch is issued.
C1_ChatPreconditions ==
    (call = "chat" /\ chatPc # "idle") =>
        /\ (getEffectiveApiKey = "" /\ getEffectiveProvider # "ollama")
              => (chatPc = "rejected" /\ chatError = ApiKeyRequired /\ fetchLog = <<>>)
        /\ (getEffectiveProvider = "custom" /\ getApiEndpoint = <<>>)
              => (chatPc = "rejected" /\ PreconditionFailed /\ fetchLog = <<>>)
        /\ (getEffectiveProvider = "ollama" /\ getEffectiveApiKey = "")
              => (~PreconditionFailed /\ Len(fetchLog) = 1)

C1_Witness ==
    /\ call = "chat" /\ chatPc = "rejected"
    /\ getEffectiveProvider = "custom" /\ getEffectiveApiKey # ""
    /\ chatError = BaseUrlRequired /\ fetchLog = <<>>

\* C2: a chat call that passes its preconditions issues exactly one POST, to
\* the resolved endpoint, whatever the outcome; nothing causes a second one.
C2_ExactlyOnePost ==
    (chatPc # "idle" /\ ~PreconditionFailed) =>
        /\ Len(fetchLog) = 1
        /\ fetchLog[1].method = "POST"
        /\ fetchLog[1].endpoint = getApiEndpoint

C2_Witness ==
    /\ call = "chat" /\ chatPc = "rejected"
    /\ chatError.text = "API error" /\ response.status = 500
    /\ Len(fetchLog) = 1

\* C3: whenever the response is 2xx with a JSON body, chat returns a result
\* whose content is a string, the empty string when the body carries no text.
C3_ContentAlwaysString ==
    (chatPc \in {"resolved", "rejected"} /\ Ok(response) /\ response.body.parsable) =>
        chatPc = "resolved"

\* C4: once a complete "data: [DONE]" line has been visited the last chunk is
\* {content: "", done: true}, the generator is suspended at that yield or has
\* returned, no line after the sentinel is visited, and from then on no read
\* is issued and no chunk is yielded.
C4_DoneState ==
    DoneVisited =>
        /\ genPc \in {"yieldedDone", "completed"}
        /\ chunks # <<>> /\ chunks[Len(chunks)] = Chunk("", TRUE)
        /\ sent.frames[LinesVisited].shape = "done"

C4_DoneTerminates ==
    /\ []C4_DoneState
    /\ [][DoneVisited => (reads' = reads /\ chunks' = chunks /\ transport' = transport)]_vars

C4_Witness ==
    /\ genPc = "completed" /\ DoneVisited
    /\ lines # <<>> /\ Trim(lines[1]) # <<>>

\* C5: a streamChat sequence that completes without throwing holds exactly
\* one chunk with done = true, it is the last one, and every chunk before it
\* has done = false and non-empty content.
C5_OneTerminalChunk ==
    (call = "streamChat" /\ genPc = "completed") =>
        /\ chunks # <<>>
        /\ chunks[Len(chunks)].done
        /\ \A i \in 1..(Len(chunks) - 1) : ~chunks[i].done /\ chunks[i].content # ""

C5_Witness ==
    /\ genPc = "completed" /\ Len(chunks) = 3
    /\ ~DoneVisited /\ transport = <<>>

\* C6 as stated: with provider anthropic, streamChat makes one non-streaming
\* chat call and yields two chunks, the result and then a separate done chunk.
C6_TwoChunks ==
    (call = "streamChat" /\ getEffectiveProvider = "anthropic" /\ genPc = "completed") =>
        /\ Len(fetchLog) = 1 /\ fetchLog[1].body.stream = Undef
        /\ chunks = <<Chunk(chatResult.content, FALSE), Chunk("", TRUE)>>

\* C6 amended: with provider anthropic, streamChat makes one non-streaming
\* chat call and yields exactly one chunk, which carries the whole result and
\* has done = true; no separate done chunk follows.
C6_OneChunkCarriesResult ==
    (call = "streamChat" /\ getEffectiveProvider = "anthropic"
        /\ genPc \in {"yieldedFallback", "completed"}) =>
        /\ chatPc = "resolved"
        /\ Len(fetchLog) = 1 /\ fetchLog[1].body.stream = Undef
        /\ chunks = <<Chunk(chatResult.content, TRUE)>>

C6_Witness ==
    /\ call = "streamChat" /\ getEffectiveProvider = "anthropic"
    /\ genPc = "completed" /\ chatResult.content = "Hello"

\* C7: for every provider of the OpenAI-compatible family (openai, deepseek,
\* minimax, zhipu, custom) and for ollama, the non-terminal chunks of a
\* completed stream carry exactly the non-empty texts of the well-formed
\* frames of the provider's dialect, in frame order.
C7_EveryFrameYielded ==
    (Streaming /\ genPc = "completed") =>
        YieldedTexts = FrameTexts(CompleteFrames, Family(getEffectiveProvider))

\* C8: a frame that is not valid JSON, or is JSON of another shape, yields no
\* chunk and throws nothing; the frames visited after it are still yielded,
\* and the stream ends with its done chunk.
C8_MalformedSkipped ==
    Streaming =>
        /\ YieldedTexts = FrameTexts(FramesVisited, Dialect(getEffectiveProvider))
        /\ genPc = "threw" => streamError \in {ApiKeyRequired, FetchFailed, ApiError,
                                                NoResponseBody, ReadFailed}
        /\ genPc = "completed" => chunks[Len(chunks)] = Chunk("", TRUE)
        /\ (genPc = "completed" /\ ~DoneVisited) => LinesVisited = Len(CompleteFrames)

C8_Witness ==
    /\ Streaming /\ genPc = "completed"
    /\ Len(sent.frames) = 2
    /\ sent.frames[1].shape \in {"invalid", "null"}
    /\ chunks = <<Chunk(sent.frames[2].content, FALSE), Chunk("", TRUE)>>

\* C9: a read is issued only by a step that leaves a next() call outstanding;
\* while no next() call is outstanding no read is in flight, and once the
\* consumer has stopped pulling the number of reads never changes.
C9_NoReadInFlight ==
    ~pending => genPc \notin {"awaitRead", "awaitFetch", "awaitText", "awaitChat"}

C9_NoReadAfterAbandon ==
    /\ []C9_NoReadInFlight
    /\ [][reads' # reads => (pending' /\ ~abandoned)]_vars
    /\ [][abandoned => (reads' = reads /\ chunks' = chunks /\ transport' = transport)]_vars

C9_Witness ==
    abandoned /\ genPc = "yieldedChunk" /\ transport # <<>> /\ reads >= 1

\* C10: streamChat with provider custom, a non-empty API key and an empty
\* resolved endpoint fails as a configuration error before any network call.
C10_StreamRejectsEmptyEndpoint ==
    (call = "streamChat" /\ genPc \notin {"none", "suspendedStart"}
        /\ getEffectiveProvider = "custom" /\ getEffectiveApiKey # ""
        /\ getApiEndpoint = <<>>) =>
        (genPc = "threw" /\ streamError = BaseUrlRequired /\ fetchLog = <<>>)

\* a connection test is running or has finished
Testing == call \in {"testConnection", "testLLMConnection"}

\* the string the pieces join to is not empty
NonEmpty(message) == \E i \in 1..Len(message) : message[i] # ""

\* C11: a connection test never rejects: whatever the chat call does
\* (precondition failure, failed fetch, non-2xx status, unparsable body) the
\* test resolves to {success, message}, success is true exactly when chat
\* resolved with non-empty content, a failure carries a non-empty message, and
\* once the one chat call has settled no further chat call or fetch is made.
C11_TestState ==
    Testing =>
        /\ testPc \in {"awaitChat", "resolved"}
        /\ Len(fetchLog) <= 1
        /\ testPc = "resolved" =>
              /\ testResult.success <=> (chatPc = "resolved" /\ chatResult.content # "")
              /\ NonEmpty(testResult.message)

C11_TestNeverRejects ==
    /\ []C11_TestState
    /\ [][(Testing /\ chatPc \in {"resolved", "rejected"})
             => (chatPc' = chatPc /\ fetchLog' = fetchLog)]_vars
    /\ [][(Testing /\ testPc = "resolved") => testResult' = testResult]_vars

C11_Witness ==
    /\ call = "testConnection" /\ testPc = "resolved"
    /\ chatPc = "rejected" /\ chatError = ChatCatch(ApiError)
    /\ testResult = TestResult(FALSE, <<"Connection failed: ", "API error">>)

IsSystem(m) == m.role = "system"

\* a chat call on an anthropic service has issued its request
AnthropicRequest ==
    call = "chat" /\ getEffectiveProvider = "anthropic" /\ fetchLog # <<>>

\* C12: for anthropic the body's messages array is exactly the non-system
\* input messages in their order, each with role user or assistant and its
\* content unchanged; no system entry remains in the array, and with a single
\* system message the body's system field is that message's content.
C12_AnthropicMessages ==
    AnthropicRequest =>
        LET body == fetchLog[1].body
            systems == SelectSeq(args.messages, IsSystem)
        IN  /\ body.messages = SelectSeq(args.messages, IsNotSystem)
            /\ \A i \in 1..Len(body.messages) :
                  body.messages[i].role \in {"user", "assistant"}
            /\ Len(systems) = 1 => body.system = Some(systems[1].content)

C12_Witness ==
    /\ AnthropicRequest
    /\ args.messages = <<Msg("user", "a"), Msg("system", "b"), Msg("assistant", "a")>>
    /\ fetchLog[1].body.messages = <<Msg("user", "a"), Msg("assistant", "a")>>
    /\ fetchLog[1].body.system = Some("b")

\* C13: for anthropic no system message's content is lost: the content of
\* every system-role input message is carried by the request body.
C13_EverySystemFolded ==
    AnthropicRequest =>
        LET body == fetchLog[1].body
        IN  \A i \in 1..Len(args.messages) :
               IsSystem(args.messages[i]) =>
                  \/ body.system = Some(args.messages[i].content)
                  \/ \E j \in 1..Len(body.messages) :
                        body.messages[j].content = args.messages[i].content

\* the value of a token count of the response body, 0 when it is missing
CountOf(usage, field) ==
    IF usage.defined /\ usage.val[field].defined THEN usage.val[field].val ELSE 0

\* C14: for an anthropic response the result's usage has promptTokens equal
\* to usage.input_tokens, completionTokens equal to usage.output_tokens and
\* totalTokens equal to their sum, a missing count being taken as 0.
C14_AnthropicUsage ==
    (call = "chat" /\ getEffectiveProvider = "anthropic" /\ chatPc = "resolved") =>
        LET usage == response.body.data.usage
            input == CountOf(usage, "input_tokens")
            output == CountOf(usage, "output_tokens")
        IN  chatResult.usage = Some([promptTokens |-> input,
                                     completionTokens |-> output,
                                     totalTokens |-> input + output])

C14_Witness ==
    /\ call = "chat" /\ getEffectiveProvider = "anthropic" /\ chatPc = "resolved"
    /\ response.body.data.usage = Some(Usage(Some(3), Some(4)))
    /\ chatResult.usage = Some([promptTokens |-> 3, completionTokens |-> 4,
                                totalTokens |-> 7])

\* the default endpoint of each provider
DefaultEndpoint(provider) ==
    CASE provider = "openai" ->
            Https \o <<"api.openai.com", "/", "v1", "/", "chat", "/", "completions">>
      [] provider = "anthropic" ->
            Https \o <<"api.anthropic.com", "/", "v1", "/", "messages">>
      [] provider = "deepseek" ->
            Https \o <<"api.deepseek.com", "/", "v1", "/", "chat", "/", "completions">>
      [] provider = "minimax" ->
            Https \o <<"api.minimax.chat", "/", "v1", "/", "text", "/", "chatcompletion_v2">>
      [] provider = "zhipu" ->
            Https \o <<"open.bigmodel.cn", "/", "api", "/", "paas", "/", "v4", "/", "chat",
                       "/", "completions">>
      [] provider = "ollama" -> Http \o <<"localhost:11434">>
      [] provider = "custom" -> <<>>

\* the path that follows the host in the provider's default endpoint
PathSuffix(provider) ==
    IF provider \in {"ollama", "custom"}
    THEN (IF provider = "custom" THEN V1ChatCompletions ELSE <<>>)
    ELSE SubSeq(DefaultEndpoint(provider), 5, Len(DefaultEndpoint(provider)))

HasScheme(url) == StartsWith(url, Http) \/ StartsWith(url, Https)

\* a host name alone: no scheme and no slash
IsBareHost(url) == Len(url) = 1 /\ url[1] \notin {"/", "http:", "https:"}

\* a chat call has resolved its endpoint; the request, when one was issued,
\* went to that endpoint
Resolved ==
    /\ call = "chat"
    /\ fetchLog # <<>> => fetchLog[1].endpoint = getApiEndpoint

\* C15: with no base URL in the saved configuration and none in the global
\* settings, the resolved endpoint is exactly the provider's default endpoint
\* (the empty string for custom).
C15_DefaultEndpoints ==
    (call = "chat" /\ settings.customBaseUrl = <<>>
        /\ (customConfig.present => customConfig.customBaseUrl = <<>>)) =>
          (Resolved /\ getApiEndpoint = DefaultEndpoint(getEffectiveProvider))

C15_Witness ==
    /\ call = "chat" /\ getEffectiveBaseUrl = <<>> /\ getEffectiveProvider = "zhipu"
    /\ fetchLog # <<>> /\ fetchLog[1].endpoint = DefaultEndpoint("zhipu")

\* C16: a base URL that has a scheme, no trailing slash and one of the path
\* markers is the resolved endpoint, unchanged, for every provider.
C16_FullUrlUnchanged ==
    (call = "chat" /\ HasScheme(getEffectiveBaseUrl)
        /\ getEffectiveBaseUrl[Len(getEffectiveBaseUrl)] # "/"
        /\ hasPath(getEffectiveBaseUrl)) =>
          (Resolved /\ getApiEndpoint = getEffectiveBaseUrl)

C16_Witness ==
    /\ call = "chat" /\ getEffectiveProvider = "anthropic"
    /\ getEffectiveBaseUrl = Https \o <<"foo.bar", "/", "v1", "/", "chat", "/", "completions">>
    /\ fetchLog # <<>> /\ fetchLog[1].endpoint = getEffectiveBaseUrl

\* C17: a base URL that is a bare host resolves to "https://" + host followed
\* by the provider's path suffix.
C17_BareHostSuffix ==
    (call = "chat" /\ IsBareHost(getEffectiveBaseUrl)) =>
        (Resolved /\ getApiEndpoint = Https \o getEffectiveBaseUrl
                                            \o PathSuffix(getEffectiveProvider))

\* the customModelName of the configuration in effect: the saved
\* configuration when one is supplied, otherwise the global settings
ModelOverride ==
    IF customConfig.present THEN customConfig.customModelName
    ELSE settings.customModelName

\* C18: when the effective provider is custom and the configuration in effect
\* sets a model-name override, the model of the request body is that override.
C18_CustomModelOverride ==
    (call = "chat" /\ fetchLog # <<>> /\ getEffectiveProvider = "custom"
        /\ ModelOverride # "") =>
          fetchLog[1].body.model = ModelOverride

\* the context has been built
Built == call = "buildCommanderContext"

\* the lines of the message, and the positions of the two headings in them
ContentLines == context[1].content
TeamAt == CHOOSE i \in 1..Len(ContentLines) : ContentLines[i] = TeamHeading
TasksAt == CHOOSE i \in 1..Len(ContentLines) : ContentLines[i] = TasksHeading

\* the lines under "## Current Team Status:", up to the empty line that
\* precedes "## Active Tasks:", and the lines under "## Active Tasks:"
TeamBlock == SubSeq(ContentLines, TeamAt + 1, TasksAt - 2)
TaskBlock == SubSeq(ContentLines, TasksAt + 1, Len(ContentLines))

\* C19: buildCommanderContext returns exactly one message, of role system;
\* its task block is one line `title: status` for each of the first
\* min(10, n) summaries, in input order, and the single line
\* "No active tasks." when there is no summary.
C19_OneSystemMessage ==
    Built =>
        /\ Len(context) = 1
        /\ context[1].role = "system"
        /\ Len(SelectSeq(ContentLines, LAMBDA l : l = TeamHeading)) = 1
        /\ Len(SelectSeq(ContentLines, LAMBDA l : l = TasksHeading)) = 1
        /\ TaskBlock = IF Len(tasks) = 0
                       THEN <<NoActiveTasksLine>>
                       ELSE [i \in 1..(IF Len(tasks) < 10 THEN Len(tasks) ELSE 10) |->
                                Line("task", 0, tasks[i].title, tasks[i].status, "")]

C19_Witness ==
    /\ Built /\ Len(tasks) = 12
    /\ Len(TaskBlock) = 10
    /\ TaskBlock[10] = TaskLine(tasks[10])
    /\ \A i \in 1..Len(ContentLines) : ContentLines[i] # TaskLine(tasks[11])

\* C20: the team block is the header "Total Agents: N", N the roster size,
\* followed by one line (name, role, status) for each roster agent, in roster
\* order, none left out; for an empty roster it is the header with 0 alone.
C20_TeamBlock ==
    Built =>
        TeamBlock = <<TotalAgentsLine(Len(agents))>>
                    \o [i \in 1..Len(agents) |->
                           Line("agent", 0, agents[i].name, agents[i].role, agents[i].status)]

C20_Witness ==
    /\ Built
    /\ agents = <<Agent("Beta", "Coder", "working"), Agent("Alpha", "Commander", "idle")>>
    /\ TeamBlock = <<TotalAgentsLine(2), AgentLine(agents[1]), AgentLine(agents[2])>>

\* the number of messages of a role in the conversation
CountRole(role) == Len(SelectSeq(panelMessages, LAMBDA m : m.role = role))

\* the place in the conversation of the user message of the i-th send
UserAt(i) ==
    CHOOSE p \in 1..Len(panelMessages) :
        /\ panelMessages[p].role = "user"
        /\ Cardinality({q \in 1..p : panelMessages[q].role = "user"}) = i

\* the conversation as it was when the i-th send was made, its own user
\* message last, in the form the adapter takes
HistoryAt(i) ==
    LET turns == SubSeq(panelMessages, 1, UserAt(i))
    IN  [k \in 1..Len(turns) |-> Msg(turns[k].role, turns[k].content)]

Awaiting(i) == sends[i].pc \in {"awaitTimer", "awaitChat"}

\* C21: the message list of every chat call of the panel is the one system
\* message of the context builder followed by the conversation turns in order,
\* the newly sent user turn last and present once.
C21_ContextThenHistory ==
    \A i \in 1..Len(sends) :
        sends[i].call # 0 =>
            LET list == chatCalls[sends[i].call].messages
            IN  /\ list # <<>>
                /\ <<list[1]>> = buildCommanderContext(commander, agents, activeTasks)
                /\ SubSeq(list, 2, Len(list)) = HistoryAt(i)

\* C22: the typing indicator is on exactly while some send awaits its reply.
C22_TypingWhilePending ==
    isTyping <=> (\E i \in 1..Len(sends) : Awaiting(i))

\* C23: every send appends one user message at once and, once its timer has
\* fired or its chat call has settled, one assistant message; no error leaves
\* the handler, and the replies never outnumber the user messages.
C23_OneReplyState ==
    /\ CountRole("user") = Len(sends)
    /\ CountRole("assistant") - 1 = Cardinality({i \in 1..Len(sends) : sends[i].pc = "done"})
    /\ CountRole("assistant") - 1 <= CountRole("user")
    /\ \A i \in 1..Len(sends) : sends[i].pc \in {"awaitTimer", "awaitChat", "done"}

C23_OneReplyPerSend ==
    /\ []C23_OneReplyState
    /\ [][Len(sends') > Len(sends) =>
             (panelMessages' = Append(panelMessages,
                                      ChatMessage("user", Trim(inputValue))))]_vars
    /\ [][(\E i \in 1..Len(sends) : Awaiting(i) /\ ~Awaiting(i)') =>
             (/\ Len(panelMessages') = Len(panelMessages) + 1
              /\ panelMessages'[Len(panelMessages')].role = "assistant"
              /\ SubSeq(panelMessages', 1, Len(panelMessages)) = panelMessages)]_vars
    /\ \A i \in 1..MaxSends :
          (Len(sends) >= i) ~> (Len(sends) >= i /\ sends[i].pc = "done")

C23_Witness ==
    /\ Len(sends) = 2
    /\ sends[1].pc = "done" /\ sends[2].pc = "done"
    /\ error # <<>>
    /\ panelMessages[Len(panelMessages)].content[1] = "Error: "

\* the i-th send made a chat call that went on to the network
ReachesLLM(i) ==
    sends[i].call # 0 /\ chatCalls[sends[i].call].precondition = NoError

\* C24: a send reaches the LLM exactly when the configuration the service
\* resolves (the commander's saved configuration before the global settings)
\* satisfies the preconditions of chat.
C24_CallsWhenEffectiveConfigOk ==
    \A i \in 1..Len(sends) : ReachesLLM(i) <=> (ChatPreconditionError = NoError)

\* the chunks of a run in which the whole body arrives in one read
RECURSIVE ChunksOf(_, _)
ChunksOf(ls, provider) ==
    LET r == RunLines(ls, provider)
    IN  IF r.kind = "chunk"
        THEN <<Chunk(r.content, FALSE)>> \o ChunksOf(r.rest, provider)
        ELSE <<Chunk("", TRUE)>>

OneReadChunks ==
    LET parts == Split(Characters(sent))
    IN  ChunksOf(SubSeq(parts, 1, Len(parts) - 1), getEffectiveProvider)

\* the body is being read, or has been read
Reading ==
    /\ Streaming /\ Ok(response) /\ response.hasBody
    /\ genPc \in {"awaitRead", "yieldedChunk", "yieldedDone", "yieldedEnd", "completed"}

\* C25: the chunks streamChat yields for a body are those of the run that
\* receives the body in a single read, however the body is cut into reads:
\* at every moment a prefix of them, and all of them once the stream is over.
C25_SplitIndependent ==
    Reading =>
        /\ Len(chunks) <= Len(OneReadChunks)
        /\ chunks = SubSeq(OneReadChunks, 1, Len(chunks))
        /\ genPc \in {"yieldedDone", "yieldedEnd", "completed"} => chunks = OneReadChunks

C25_Witness ==
    /\ Reading /\ genPc = "completed"
    /\ reads > 4
    /\ chunks = <<Chunk("Hi", FALSE), Chunk("!", FALSE), Chunk("", TRUE)>>

\* how many path segments of the URL are the given word
Occurrences(url, word) == Cardinality({i \in 1..Len(url) : url[i] = word})

\* C26: for a base URL whose path is the version segment alone
\* ("https://foo.bar/v1", with or without a final slash) the endpoint resolved
\* for openai, deepseek, anthropic, minimax and custom holds /v1 exactly once.
C26_NoDoubledSegment ==
    (call = "chat"
        /\ getEffectiveBaseUrl \in {Https \o <<"foo.bar", "/", "v1">>,
                                    Https \o <<"foo.bar", "/", "v1", "/">>}
        /\ getEffectiveProvider \in {"openai", "deepseek", "anthropic", "minimax", "custom"}) =>
          (Resolved /\ Occurrences(getApiEndpoint, "v1") = 1)

\* the tasks assigned to an agent that are not completed
OpenTasksOf(agent) ==
    { i \in 1..Len(store.tasks) :
        /\ store.tasks[i].assignedAgentId = Some(agent.id)
        /\ store.tasks[i].status # "completed" }

\* C27: after any sequence of addAgent, addTask, assignTask, updateTaskStatus,
\* updateTask, deleteTask and deleteAgent, every agent's taskCount is
\* non-negative and equals the number of tasks assigned to that agent whose
\* status is not completed.
C27_TaskCountIsOpenTasks ==
    \A i \in 1..Len(store.agents) :
        /\ store.agents[i].taskCount >= 0
        /\ store.agents[i].taskCount = Cardinality(OpenTasksOf(store.agents[i]))

\* C28: after any sequence of addAgent, addTask, assignTask with existing ids
\* and deleteAgent, every task's assignedAgentId is unset or the id of an
\* agent that is still in the collection.
C28_AssigneeExists ==
    \A i \in 1..Len(store.tasks) :
        store.tasks[i].assignedAgentId.defined
            => store.tasks[i].assignedAgentId.val \in AgentIds

\* C29: after any sequence of addAgent, updateAgent as the agent panel issues
\* it, deleteAgent and setCommander with an existing id, commanderId is null
\* or the id of an existing agent, at most one agent has isCommander set, and
\* an agent has isCommander set exactly when its id is commanderId.
C29_CommanderConsistent ==
    /\ store.commanderId = Null \/ store.commanderId \in AgentIds
    /\ Cardinality({ i \in 1..Len(store.agents) : store.agents[i].isCommander }) <= 1
    /\ \A i \in 1..Len(store.agents) :
           store.agents[i].isCommander <=> store.agents[i].id = store.commanderId

\* two agents remain after a third was deleted, and the second is the commander
C29_Witness ==
    /\ Len(store.agents) = 2
    /\ generated > 2
    /\ store.commanderId = store.agents[2].id
    /\ store.agents[2].status = "working"

\* the eight persisted fields as they are in memory
Persisted ==
    [agents |-> store.agents,
     tasks |-> store.tasks,
     formations |-> store.formations,
     settings |-> settings,
     formationType |-> store.formationType,
     isHeatmapEnabled |-> store.isHeatmapEnabled,
     commanderId |-> store.commanderId,
     selectedAgentId |-> store.selectedAgentId]

\* the eight fields as loadState would leave them
Reloaded ==
    LET loaded == readState
    IN  IF loaded.defined
        THEN [loaded.val EXCEPT
                 !.commanderId = Coalesce(loaded.val.commanderId, store.commanderId),
                 !.selectedAgentId = Coalesce(loaded.val.selectedAgentId,
                                              store.selectedAgentId)]
        ELSE Persisted

\* the stored snapshot holds the in-memory values of the eight fields
SnapshotCurrent ==
    /\ localStorage.defined
    /\ parse(localStorage.val) = Persisted
    /\ Reloaded = Persisted

\* C30: with local storage empty at the start and every write succeeding, a
\* step of the store that changes one of the eight persisted fields leaves a
\* snapshot equal to their in-memory values, so that loadState would change
\* nothing; a step that does not write the snapshot changes none of them.
C30_SnapshotFollowsMemory ==
    [][ /\ (Persisted' # Persisted) => SnapshotCurrent'
        /\ (localStorage' = localStorage) => (Persisted' = Persisted) ]_vars

\* a snapshot was written with an agent selected, a commander set and a task
\* that has no assignee, while an animation is running
C30_Witness ==
    /\ SnapshotCurrent
    /\ store.selectedAgentId # Null
    /\ store.commanderId # Null
    /\ \E i \in 1..Len(store.tasks) : ~store.tasks[i].assignedAgentId.defined
    /\ store.activeTaskAnimations # <<>>

====
